---- MODULE Spec2Model ----
(***************************************************************************)
(* Eye-controlled web prototype: the dwell-click detector (useDwellClick), *)
(* the gaze smoother (useEyeTracking), the calibration session             *)
(* (useCalibration) and the App component that wires them together.        *)
(*                                                                         *)
(* One action is one JavaScript task (an event handler, an animation-frame *)
(* callback, a tracker callback) together with the React render and the    *)
(* effects that the task's state updates cause.                            *)
(*                                                                         *)
(* Numbers.  Times are integer milliseconds (Date.now()).  Pixels are      *)
(* integers.  Dwell progress, a fraction elapsed/dwellDuration in the      *)
(* code, is kept as its numerator: the value n stands for n/dwellDuration, *)
(* so progress 1 is dwellDuration and progress 0.1 is dwellDuration/10.    *)
(***************************************************************************)
EXTENDS Integers, Sequences, FiniteSets, TLC

\* ------------------------------------------------------------------------
\* Program constants
\* ------------------------------------------------------------------------
dwellRadius == 50
dwellDuration == 800
cooldownDuration == 500

\* ------------------------------------------------------------------------
\* Bounds of the model
\* ------------------------------------------------------------------------
\* Date.now() when the page is loaded: any value not smaller than
\* cooldownDuration (the real clock is about 1.7e12).
Epoch == 1000
\* Time is explored up to Epoch + Horizon.
Horizon == 1700
\* Ticks fed in the dwell scenario.
MaxTicks == 17
\* The most milliseconds that pass while a synthetic click is dispatched.
MaxLatency == 60

\* ------------------------------------------------------------------------
\* Values
\* ------------------------------------------------------------------------
\* null / undefined is the empty tuple, a present value v is <<v>>.
None == <<>>
Some(v) == <<v>>
Val(o) == o[1]

Pt(x, y) == [x |-> x, y |-> y]

\* Screen points fed to the detector: (130,140) is at distance exactly
\* dwellRadius from (100,100), (131,140) just beyond it.
Points == {Pt(100, 100), Pt(130, 140), Pt(131, 140)}

\* Spacing of the ticks of the dwell scenario, dwellDuration/10.
TickSpacing == dwellDuration \div 10

\* Amounts by which the clock advances between two tasks.
Steps == {TickSpacing, dwellDuration \div 2, cooldownDuration}

\* Time that passes between the Date.now() of updateGaze and the Date.now()
\* of triggerClick (element lookup and synchronous event dispatch).
Latencies == {0, MaxLatency}

\* What document.elementFromPoint finds under a click.
Hits == {"none", "inert"}

VARIABLES
    clock,          \* Date.now()
    enabled,        \* useDwellClick's enabled argument as of the last render
    isDwelling,     \* useState
    dwellProgress,  \* useState (numerator, see above)
    dwellTarget,    \* useState
    dwellStartTime, \* useRef
    dwellCenter,    \* useRef
    lastClickTime,  \* useRef
    clickCount,     \* history: number of triggerClick calls so far
    lastClick,      \* history: the last triggerClick call
    last,           \* history: the last operation
    feed,           \* the dwell scenario: the fixed point and the ticks fed
    plan,           \* the calibration scenario: the layout of the eye positions
    accepted,       \* history (calibration on its own): the eye coordinates of
                    \* the recordPoint calls accepted since the last start
    appState,       \* App useState: "permission", "calibrating", "dashboard"
    isLoading,      \* useEyeTracking useState
    isTracking,     \* useEyeTracking useState
    error,          \* useEyeTracking useState (TRUE: a message is set)
    cameraOn,       \* cameraRef / faceMeshRef / the video stream are live
    eyeCoords,      \* useEyeTracking useState: the exposed smoothed sample
    prevCoordsRef,  \* useEyeTracking useRef: the sample smoother's state
    screenPosRef,   \* App useRef: the pointer smoother's state
    pointerPos,     \* App useState
    loop,           \* the pending animation frame and its callback's closure
    calState,       \* useCalibration useState
    mappingCoeffs,  \* useCalibration useState
    viewport,       \* window.innerWidth / innerHeight
    calibrationTargets, \* useCalibration useMemo
    session         \* history: starts, samples, and whether the face is lost

dwellVars == <<isDwelling, dwellProgress, dwellTarget, dwellStartTime,
               dwellCenter, lastClickTime>>
histVars == <<clickCount, lastClick, last>>
appVars == <<appState, isLoading, isTracking, error, cameraOn, eyeCoords,
             prevCoordsRef, screenPosRef, pointerPos, loop, calState,
             mappingCoeffs, viewport, calibrationTargets, session>>
vars == <<clock, enabled, dwellVars, histVars, feed, accepted, plan, appVars>>

\* ------------------------------------------------------------------------
\* useDwellClick
\* ------------------------------------------------------------------------
DwellState ==
    [isDwelling |-> isDwelling, dwellProgress |-> dwellProgress,
     dwellTarget |-> dwellTarget, dwellStartTime |-> dwellStartTime,
     dwellCenter |-> dwellCenter, lastClickTime |-> lastClickTime]

InitialDwellState ==
    [isDwelling |-> FALSE, dwellProgress |-> 0, dwellTarget |-> None,
     dwellStartTime |-> None, dwellCenter |-> None, lastClickTime |-> 0]

\* dx*dx + dy*dy
distanceSq(p, c) == (p.x - c.x) * (p.x - c.x) + (p.y - c.y) * (p.y - c.y)

\* Mutant: the radius test is >= instead of >.
MovedAwayInclusive(p, c) == distanceSq(p, c) >= dwellRadius * dwellRadius

\* Mutant: samples up to twice dwellRadius away are still accepted.
MovedAwayLoose(p, c) == distanceSq(p, c) > 4 * dwellRadius * dwellRadius

\* Math.sqrt(dx*dx + dy*dy) > dwellRadius, decided on the squares.
MovedAway(p, c) == distanceSq(p, c) > dwellRadius * dwellRadius

\* Mutant: the cooldown test is <= instead of <.
InCooldownInclusive(now, lct) == now - lct <= cooldownDuration

\* Mutant: the cooldown lasts half of cooldownDuration.
InCooldownHalf(now, lct) == 2 * (now - lct) < cooldownDuration

\* now - lastClickTime.current < cooldownDuration
InCooldown(now, lct) == now - lct < cooldownDuration

\* now - (dwellStartTime.current || now): null and 0 are both falsy.
Elapsed(now, start) ==
    IF start = None THEN 0 ELSE IF Val(start) = 0 THEN 0 ELSE now - Val(start)

\* Math.min(1, elapsed / dwellDuration), as a numerator over dwellDuration.
Progress(elapsed) == IF elapsed < dwellDuration THEN elapsed ELSE dwellDuration

\* Mutant: the flag is set from a tenth on (progress >= 0.1).
AboveHysteresisInclusive(progress) == 10 * progress >= dwellDuration

\* progress > 0.1
AboveHysteresis(progress) == 10 * progress > dwellDuration

\* Mutant: the completion test is > instead of >=.
DwellCompleteStrict(progress) == progress > dwellDuration

\* progress >= 1
DwellComplete(progress) == progress >= dwellDuration

\* Mutant: triggerClick forgets to stamp lastClickTime.
triggerClickNoStamp(s, at) == s

\* triggerClick: dispatches the click, then lastClickTime.current = Date.now().
triggerClick(s, at) == [s EXCEPT !.lastClickTime = at]

\* "Reset dwell state" after a click.
ResetDwell(s) ==
    [s EXCEPT !.dwellStartTime = None, !.dwellCenter = None,
              !.dwellProgress = 0, !.isDwelling = FALSE, !.dwellTarget = None]

\* Mutant: the restart branch forgets setDwellProgress(0).
RestartKeepsProgress(s, p, now) ==
    [s EXCEPT !.dwellStartTime = Some(now), !.dwellCenter = Some(p),
              !.dwellTarget = Some(p), !.isDwelling = FALSE]

\* "Gaze moved too far, reset dwell".
RestartDwell(s, p, now) ==
    [s EXCEPT !.dwellStartTime = Some(now), !.dwellCenter = Some(p),
              !.dwellTarget = Some(p), !.dwellProgress = 0, !.isDwelling = FALSE]

\* "Start new dwell".
StartDwell(s, p, now) ==
    [s EXCEPT !.dwellStartTime = Some(now), !.dwellCenter = Some(p),
              !.dwellTarget = Some(p)]

\* "Still dwelling, calculate progress"; lat is the time triggerClick's
\* Date.now() is later than updateGaze's.
StillDwelling(s, now, lat) ==
    LET progress == Progress(Elapsed(now, s.dwellStartTime))
        shown == [s EXCEPT !.dwellProgress = progress,
                           !.isDwelling = AboveHysteresis(progress)]
    IN  IF DwellComplete(progress)
        THEN ResetDwell(triggerClick(shown, now + lat))
        ELSE shown

\* updateGaze with enabled = false.
DisabledUpdate(s) == [s EXCEPT !.isDwelling = FALSE, !.dwellProgress = 0]

\* The branch updateGaze takes.
Branch(s, en, p, now) ==
    IF ~en THEN "disabled"
    ELSE IF InCooldown(now, s.lastClickTime) THEN "cooldown"
    ELSE IF s.dwellCenter # None
         THEN IF MovedAway(p, Val(s.dwellCenter)) THEN "restart"
              ELSE IF DwellComplete(Progress(Elapsed(now, s.dwellStartTime)))
                   THEN "click" ELSE "progress"
         ELSE "start"

\* updateGaze(x, y) called at Date.now() = now.
updateGaze(s, en, p, now, lat) ==
    IF ~en THEN DisabledUpdate(s)
    ELSE IF InCooldown(now, s.lastClickTime) THEN s
    ELSE IF s.dwellCenter # None
         THEN IF MovedAway(p, Val(s.dwellCenter))
              THEN RestartDwell(s, p, now)
              ELSE StillDwelling(s, now, lat)
         ELSE StartDwell(s, p, now)

\* Mutant: the effect is missing.
ResetWhenDisabledMissing(s, en) == s

\* Mutant: the effect clears what is shown but keeps the two refs.
ResetWhenDisabledKeepsRefs(s, en) ==
    IF ~en
    THEN [s EXCEPT !.isDwelling = FALSE, !.dwellProgress = 0,
                   !.dwellTarget = None]
    ELSE s

\* The effect "Reset when disabled", run after a render in which enabled
\* changed.
ResetWhenDisabled(s, en) ==
    IF ~en
    THEN [s EXCEPT !.dwellStartTime = None, !.dwellCenter = None,
                   !.isDwelling = FALSE, !.dwellProgress = 0,
                   !.dwellTarget = None]
    ELSE s

SetDwell(t) ==
    /\ isDwelling' = t.isDwelling
    /\ dwellProgress' = t.dwellProgress
    /\ dwellTarget' = t.dwellTarget
    /\ dwellStartTime' = t.dwellStartTime
    /\ dwellCenter' = t.dwellCenter
    /\ lastClickTime' = t.lastClickTime

\* The progress updateGaze passes to setDwellProgress in the "still
\* dwelling" branch, before any reset in the same call.
Computed(op, s, now) ==
    IF op \in {"progress", "click"}
    THEN Some(Progress(Elapsed(now, s.dwellStartTime)))
    ELSE None

\* The record of an operation: its name, its argument, whether progress was
\* shown when it started, and the progress it computed.
Op(name, p, s, now) ==
    [op |-> name, p |-> p, hadProgress |-> s.dwellProgress > 0,
     computed |-> Computed(name, s, now)]

GazeOps == {"disabled", "cooldown", "restart", "progress", "click", "start"}

\* The triggerClick call of an updateGaze that took the branch op.
ClickOf(op, s, lat, hit) ==
    IF op = "click"
    THEN Some([at |-> Val(s.dwellCenter), lat |-> lat, hit |-> hit])
    ELSE lastClick

NoFeed == [p |-> Pt(0, 0), t0 |-> 0, n |-> 0, peak |-> 0]

\* No calibration scenario is running.
NoPlan == <<>>

\* ========================================================================
\* The application: tracker, smoothers, calibration, animation-frame loop
\* ========================================================================
\* Gaze coordinates are normalized to [0,1] in the code; here they are
\* integers counting steps of 1/GazeScale.  The calibration grid fractions
\* use the same unit.
GazeScale == 10
\* Smoothing factors are fractions in the code; here they are numerators
\* over Percent (0.3 is 30, 0.35 is 35).
Percent == 100
SMOOTHING_FACTOR == 30
SCREEN_SMOOTHING_FACTOR == 35
THROTTLE_MS == 16

\* Bounds of the application model.
\* Time is explored up to Epoch + AppHorizon.
AppHorizon == 1200
\* Tracker results with a face that are delivered in one run.
MaxFrames == 3
\* Times tracking is started in one run.
MaxSessions == 2

\* n/d rounded to the nearest integer (d > 0); the result of a floating
\* point expression is kept in fixed point.
Round(n, d) == (2 * n + d) \div (2 * d)

\* Mutant: the weighted form (1 - factor) * prev + factor * raw, each product
\* rounded on its own.
BlendWeighted(prev, raw, factor) ==
    Round((Percent - factor) * prev, Percent) + Round(factor * raw, Percent)

\* prev + factor * (raw - prev)
Blend(prev, raw, factor) == prev + Round(factor * (raw - prev), Percent)

BlendPt(prev, raw, factor) ==
    Pt(Blend(prev.x, raw.x, factor), Blend(prev.y, raw.y, factor))

\* The raw sample onResults builds from the two iris (or eye) centres.
EyeCoordinates(l, r) ==
    [leftIris |-> l, rightIris |-> r,
     average |-> Pt((l.x + r.x) \div 2, (l.y + r.y) \div 2)]

\* Raw samples the tracker delivers (averages (2,2) and (8,4)).
RawSamples ==
    {EyeCoordinates(Pt(1, 2), Pt(3, 2)), EyeCoordinates(Pt(7, 4), Pt(9, 4))}

\* onResults with a face: the sample that is stored in prevCoordsRef and
\* exposed as eyeCoords.
onResults(prev, raw) ==
    IF prev # None
    THEN [leftIris |-> BlendPt(Val(prev).leftIris, raw.leftIris, SMOOTHING_FACTOR),
          rightIris |-> BlendPt(Val(prev).rightIris, raw.rightIris, SMOOTHING_FACTOR),
          average |-> BlendPt(Val(prev).average, raw.average, SMOOTHING_FACTOR)]
    ELSE raw

\* window.innerWidth, window.innerHeight
Viewports == {[w |-> 1000, h |-> 800]}

\* ------------------------------------------------------------------------
\* leastSquares.ts
\* ------------------------------------------------------------------------
RECURSIVE SumSeq(_)
SumSeq(s) == IF s = <<>> THEN 0 ELSE Head(s) + SumSeq(Tail(s))

\* Mutant: no determinant is taken as singular.
IsSingularNever(det) == FALSE

\* The determinant of X^T X in the code's units is the integer determinant
\* divided by GazeScale^4, so |det| < 1e-10 is exactly det = 0 here.
IsSingular(det) == det = 0

\* The inverse is kept as its numerators (the adjugate) over det.
invertMatrix3x3(m) ==
    LET a == m[1][1]
        b == m[1][2]
        c == m[1][3]
        d == m[2][1]
        e == m[2][2]
        f == m[2][3]
        g == m[3][1]
        h == m[3][2]
        i == m[3][3]
        det == a * (e * i - f * h) - b * (d * i - f * g) + c * (d * h - e * g)
    IN  IF IsSingular(det)
        THEN None
        ELSE Some([adj |-> << <<e * i - f * h, c * h - b * i, b * f - c * e>>,
                              <<f * g - d * i, a * i - c * g, c * d - a * f>>,
                              <<d * h - e * g, b * g - a * h, a * e - b * d>> >>,
                   det |-> det])

multiplyMatrixVector(m, v) ==
    << m[1][1] * v[1] + m[1][2] * v[2] + m[1][3] * v[3],
       m[2][1] * v[1] + m[2][2] * v[2] + m[2][3] * v[3],
       m[3][1] * v[1] + m[3][2] * v[2] + m[3][3] * v[3] >>

\* The coefficients are kept as numerators over the common denominator det.
computeRegressionCoefficients(points) ==
    IF Len(points) < 3
    THEN None
    ELSE LET n == Len(points)
             I == 1..n
             sumX == SumSeq([k \in I |-> points[k].eyeX])
             sumY == SumSeq([k \in I |-> points[k].eyeY])
             sumXX == SumSeq([k \in I |-> points[k].eyeX * points[k].eyeX])
             sumXY == SumSeq([k \in I |-> points[k].eyeX * points[k].eyeY])
             sumYY == SumSeq([k \in I |-> points[k].eyeY * points[k].eyeY])
             sumScreenX == SumSeq([k \in I |-> points[k].screenX])
             sumScreenY == SumSeq([k \in I |-> points[k].screenY])
             sumXScreenX == SumSeq([k \in I |-> points[k].eyeX * points[k].screenX])
             sumYScreenX == SumSeq([k \in I |-> points[k].eyeY * points[k].screenX])
             sumXScreenY == SumSeq([k \in I |-> points[k].eyeX * points[k].screenY])
             sumYScreenY == SumSeq([k \in I |-> points[k].eyeY * points[k].screenY])
             XtX == << <<n, sumX, sumY>>,
                       <<sumX, sumXX, sumXY>>,
                       <<sumY, sumXY, sumYY>> >>
             XtYx == <<sumScreenX, sumXScreenX, sumYScreenX>>
             XtYy == <<sumScreenY, sumXScreenY, sumYScreenY>>
             XtXInv == invertMatrix3x3(XtX)
         IN  IF XtXInv = None
             THEN None
             ELSE Some([xCoeffs |-> multiplyMatrixVector(Val(XtXInv).adj, XtYx),
                        yCoeffs |-> multiplyMatrixVector(Val(XtXInv).adj, XtYy),
                        det |-> Val(XtXInv).det])

\* Mutant: the two eye coordinates are exchanged in the affine model.
mapEyeToScreenSwapped(eyeX, eyeY, coeffs) ==
    Pt(Round(coeffs.xCoeffs[1] + coeffs.xCoeffs[2] * eyeY + coeffs.xCoeffs[3] * eyeX,
             coeffs.det),
       Round(coeffs.yCoeffs[1] + coeffs.yCoeffs[2] * eyeY + coeffs.yCoeffs[3] * eyeX,
             coeffs.det))

mapEyeToScreen(eyeX, eyeY, coeffs) ==
    Pt(Round(coeffs.xCoeffs[1] + coeffs.xCoeffs[2] * eyeX + coeffs.xCoeffs[3] * eyeY,
             coeffs.det),
       Round(coeffs.yCoeffs[1] + coeffs.yCoeffs[2] * eyeX + coeffs.yCoeffs[3] * eyeY,
             coeffs.det))

\* Mutant: the x axis is not mirrored.
simpleLinearMapUnmirrored(eyeX, eyeY, windowWidth, windowHeight) ==
    Pt(Round(eyeX * windowWidth, GazeScale),
       Round(eyeY * windowHeight, GazeScale))

\* Mutant: the mirror is a negation, x = -eyeX * windowWidth.
simpleLinearMapNegated(eyeX, eyeY, windowWidth, windowHeight) ==
    Pt(Round((0 - eyeX) * windowWidth, GazeScale),
       Round(eyeY * windowHeight, GazeScale))

\* x: (1 - eyeX) * windowWidth, y: eyeY * windowHeight
simpleLinearMap(eyeX, eyeY, windowWidth, windowHeight) ==
    Pt(Round((GazeScale - eyeX) * windowWidth, GazeScale),
       Round(eyeY * windowHeight, GazeScale))

\* ------------------------------------------------------------------------
\* useCalibration
\* ------------------------------------------------------------------------
CALIBRATION_POSITIONS ==
    << Pt(1, 1), Pt(5, 1), Pt(9, 1),
       Pt(1, 5), Pt(5, 5), Pt(9, 5),
       Pt(1, 9), Pt(5, 9), Pt(9, 9) >>

IdleCalibration ==
    [isCalibrating |-> FALSE, currentPointIndex |-> 0, completedPoints |-> <<>>,
     calibrationPoints |-> <<>>, isComplete |-> FALSE]

\* useMemo(..., []): the targets for the viewport the page was loaded with.
Targets(vp) ==
    [k \in 1..Len(CALIBRATION_POSITIONS) |->
        Pt(Round(CALIBRATION_POSITIONS[k].x * vp.w, GazeScale),
           Round(CALIBRATION_POSITIONS[k].y * vp.h, GazeScale))]

\* Mutant: startCalibration keeps the points and the index.
startKeepsPoints == [calState EXCEPT !.isCalibrating = TRUE, !.isComplete = FALSE]

startCalibration == [IdleCalibration EXCEPT !.isCalibrating = TRUE]

\* Mutant: resetCalibration leaves isComplete as it is.
resetKeepsComplete == [IdleCalibration EXCEPT !.isComplete = calState.isComplete]

\* Mutant: resetCalibration leaves the session as it is.
resetKeepsSession == calState

resetCalibration == IdleCalibration

\* Mutant: recordPoint does not test isCalibrating.
AcceptsWhenIdle(cs) == cs.currentPointIndex < Len(CALIBRATION_POSITIONS)

Accepts(cs) ==
    cs.isCalibrating /\ cs.currentPointIndex < Len(CALIBRATION_POSITIONS)

\* Mutant: the point is paired with the target counted from the end.
recordPointWrongTarget(cs, targets, eyeX, eyeY) ==
    IF ~Accepts(cs)
    THEN cs
    ELSE LET target == targets[Len(targets) - cs.currentPointIndex]
             nextIndex == cs.currentPointIndex + 1
             isComplete == nextIndex >= Len(CALIBRATION_POSITIONS)
         IN  [cs EXCEPT !.calibrationPoints =
                            Append(@, [eyeX |-> eyeX, eyeY |-> eyeY,
                                       screenX |-> target.x, screenY |-> target.y]),
                        !.completedPoints = Append(@, cs.currentPointIndex),
                        !.currentPointIndex = nextIndex,
                        !.isCalibrating = ~isComplete,
                        !.isComplete = isComplete]

\* Mutant: the ninth point sets isComplete and leaves isCalibrating set.
recordPointKeepsCollecting(cs, targets, eyeX, eyeY) ==
    IF ~Accepts(cs)
    THEN cs
    ELSE LET target == targets[cs.currentPointIndex + 1]
             newPoint == [eyeX |-> eyeX, eyeY |-> eyeY,
                          screenX |-> target.x, screenY |-> target.y]
             nextIndex == cs.currentPointIndex + 1
             isComplete == nextIndex >= Len(CALIBRATION_POSITIONS)
         IN  [cs EXCEPT !.calibrationPoints = Append(@, newPoint),
                        !.completedPoints = Append(@, cs.currentPointIndex),
                        !.currentPointIndex = nextIndex,
                        !.isCalibrating = TRUE,
                        !.isComplete = isComplete]

\* Mutant: one call records the point twice.
recordPointTwice(cs, targets, eyeX, eyeY) ==
    IF ~Accepts(cs)
    THEN cs
    ELSE LET target == targets[cs.currentPointIndex + 1]
             newPoint == [eyeX |-> eyeX, eyeY |-> eyeY,
                          screenX |-> target.x, screenY |-> target.y]
             nextIndex == cs.currentPointIndex + 2
             isComplete == nextIndex >= Len(CALIBRATION_POSITIONS)
         IN  [cs EXCEPT !.calibrationPoints = Append(Append(@, newPoint), newPoint),
                        !.completedPoints =
                            Append(Append(@, cs.currentPointIndex),
                                   cs.currentPointIndex + 1),
                        !.currentPointIndex = nextIndex,
                        !.isCalibrating = ~isComplete,
                        !.isComplete = isComplete]

\* The state recordPoint's updater returns.
recordPoint(cs, targets, eyeX, eyeY) ==
    IF ~Accepts(cs)
    THEN cs
    ELSE LET target == targets[cs.currentPointIndex + 1]
             newPoint == [eyeX |-> eyeX, eyeY |-> eyeY,
                          screenX |-> target.x, screenY |-> target.y]
             nextIndex == cs.currentPointIndex + 1
             isComplete == nextIndex >= Len(CALIBRATION_POSITIONS)
         IN  [cs EXCEPT !.calibrationPoints = Append(@, newPoint),
                        !.completedPoints = Append(@, cs.currentPointIndex),
                        !.currentPointIndex = nextIndex,
                        !.isCalibrating = ~isComplete,
                        !.isComplete = isComplete]

\* Mutant: the fit is computed at every accepted point.
recordPointCoeffsEarly(cs, after, coeffs) ==
    IF Accepts(cs)
    THEN LET fit == computeRegressionCoefficients(after.calibrationPoints)
         IN  IF fit # None THEN fit ELSE coeffs
    ELSE coeffs

\* The mapping coefficients after recordPoint's updater has run.
recordPointCoeffs(cs, after, coeffs) ==
    IF Accepts(cs) /\ after.isComplete
    THEN LET fit == computeRegressionCoefficients(after.calibrationPoints)
         IN  IF fit # None THEN fit ELSE coeffs
    ELSE coeffs

\* Mutant: the upper limit of the clamp is left out.
ClampLowerOnly(v, hi) == IF v < 0 THEN 0 ELSE v

\* Math.max(0, Math.min(hi, v))
Clamp(v, hi) == IF v < 0 THEN 0 ELSE IF v > hi THEN hi ELSE v

\* Mutant: without coefficients the pointer is sent to the origin.
mapToScreenNoFallback(eyeX, eyeY, coeffs, vp) ==
    IF coeffs # None
    THEN LET mapped == mapEyeToScreen(eyeX, eyeY, Val(coeffs))
         IN  Pt(Clamp(mapped.x, vp.w), Clamp(mapped.y, vp.h))
    ELSE Pt(0, 0)

mapToScreen(eyeX, eyeY, coeffs, vp) ==
    IF coeffs # None
    THEN LET mapped == mapEyeToScreen(eyeX, eyeY, Val(coeffs))
         IN  Pt(Clamp(mapped.x, vp.w), Clamp(mapped.y, vp.h))
    ELSE simpleLinearMap(eyeX, eyeY, vp.w, vp.h)

\* ------------------------------------------------------------------------
\* App
\* ------------------------------------------------------------------------
\* Mutant: the detector is enabled on the dashboard whether or not the
\* calibration is complete.
EnabledOnDashboard(app, complete) == app = "dashboard"

\* Mutant: the detector is enabled on the dashboard or when the calibration
\* is complete.
EnabledEither(app, complete) == app = "dashboard" \/ complete

\* The enabled argument App passes to useDwellClick.
EnabledFlag(app, complete) == app = "dashboard" /\ complete

\* Mutant: the cleanup of the loop effect does not cancel the pending frame.
LoopEffectNoCancel(old, tracking, app, en, now) ==
    IF ~tracking
    THEN old
    ELSE Some([appState |-> app, enabled |-> en, lastTime |-> now])

\* Mutant: a restarted loop takes its first frame as due.
LoopEffectEager(old, tracking, app, en, now) ==
    IF ~tracking
    THEN None
    ELSE Some([appState |-> app, enabled |-> en, lastTime |-> now - THROTTLE_MS])

\* The animation-frame loop effect: its cleanup cancels the pending frame
\* (old), and while tracking it requests a frame whose callback closes over
\* appState, updateGaze (its enabled flag) and lastTime.
LoopEffect(old, tracking, app, en, now) ==
    IF ~tracking
    THEN None
    ELSE Some([appState |-> app, enabled |-> en, lastTime |-> now])

\* The mapping effect: one smoothing step of the pointer position.
MapEffect(pos, eye, tracking, coeffs, vp) ==
    IF eye # None /\ tracking
    THEN BlendPt(pos, mapToScreen(Val(eye).average.x, Val(eye).average.y, coeffs, vp),
                 SCREEN_SMOOTHING_FACTOR)
    ELSE pos

\* What a dwell click can land on, on the dashboard.
AppHits == {"none", "inert", "recalibrate", "stop"}

\* Amounts by which the clock advances between two tasks of the app.
AppSteps == {dwellDuration \div 2}

\* inFlight: a frame has been sent to the tracker (faceMesh.send) and its
\* result has not been delivered yet.
NoSession ==
    [n |-> 0, frames |-> 0, samples |-> 0, faceLost |-> FALSE, inFlight |-> FALSE]

InitAppVars ==
    /\ appState = "permission"
    /\ isLoading = FALSE
    /\ isTracking = FALSE
    /\ error = FALSE
    /\ cameraOn = FALSE
    /\ eyeCoords = None
    /\ prevCoordsRef = None
    /\ screenPosRef = Pt(0, 0)
    /\ pointerPos = Pt(0, 0)
    /\ loop = None
    /\ calState = IdleCalibration
    /\ mappingCoeffs = None
    /\ viewport \in Viewports
    /\ calibrationTargets = Targets(viewport)
    /\ session = NoSession

\* ------------------------------------------------------------------------
\* The detector on its own: a caller feeds samples, time passes, the owner
\* re-renders with another enabled flag.
\* ------------------------------------------------------------------------
InitDwell ==
    /\ clock = Epoch
    /\ enabled \in BOOLEAN
    /\ isDwelling = FALSE
    /\ dwellProgress = 0
    /\ dwellTarget = None
    /\ dwellStartTime = None
    /\ dwellCenter = None
    /\ lastClickTime = 0
    /\ clickCount = 0
    /\ lastClick = None
    /\ last = Op("init", None, InitialDwellState, Epoch)
    /\ feed = NoFeed
    /\ accepted = <<>>
    /\ plan = NoPlan
    /\ InitAppVars

Advance(dt) ==
    /\ clock + dt <= Epoch + Horizon
    /\ clock' = clock + dt
    /\ last' = Op("advance", None, DwellState, clock)
    /\ UNCHANGED <<enabled, dwellVars, clickCount, lastClick, feed, accepted, plan, appVars>>

\* One call of updateGaze(p.x, p.y) by the owner of the hook.
GazeCall(p, lat, hit) ==
    LET s == DwellState
        op == Branch(s, enabled, p, clock)
    IN  /\ SetDwell(updateGaze(s, enabled, p, clock, lat))
        /\ clock' = IF op = "click" THEN clock + lat ELSE clock
        /\ clickCount' = IF op = "click" THEN clickCount + 1 ELSE clickCount
        /\ lastClick' = ClickOf(op, s, lat, hit)
        /\ last' = Op(op, Some(p), s, clock)
        /\ UNCHANGED <<enabled, accepted, plan, appVars>>

CallUpdateGaze(p, lat, hit) == GazeCall(p, lat, hit) /\ UNCHANGED feed

\* A render of the owner with another enabled flag, and the reset effect.
EnabledChange(b) ==
    /\ b # enabled
    /\ enabled' = b
    /\ SetDwell(ResetWhenDisabled(DwellState, b))
    /\ last' = Op("setEnabled", None, DwellState, clock)
    /\ UNCHANGED <<clock, clickCount, lastClick, accepted, plan, appVars>>

SetEnabled(b) == EnabledChange(b) /\ UNCHANGED feed

NextDwell ==
    \/ \E dt \in Steps : Advance(dt)
    \/ \E p \in Points, lat \in Latencies, hit \in Hits : CallUpdateGaze(p, lat, hit)
    \/ \E b \in BOOLEAN : SetEnabled(b)

SpecDwell == InitDwell /\ [][NextDwell]_vars

\* ------------------------------------------------------------------------
\* The dwell scenario: one fixed point is fed to an enabled detector on
\* ticks TickSpacing apart; tick k (k = 1, 2, ...) is at t0 + (k-1)*TickSpacing.
\* ------------------------------------------------------------------------
InitFeed ==
    /\ clock \in {Epoch, Epoch + TickSpacing}
    /\ enabled = TRUE
    /\ isDwelling = FALSE
    /\ dwellProgress = 0
    /\ dwellTarget = None
    /\ dwellStartTime = None
    /\ dwellCenter = None
    /\ lastClickTime = 0
    /\ clickCount = 0
    /\ lastClick = None
    /\ last = Op("init", None, InitialDwellState, clock)
    /\ feed \in {[p |-> q, t0 |-> clock, n |-> 0, peak |-> 0] : q \in Points}
    /\ accepted = <<>>
    /\ plan = NoPlan
    /\ InitAppVars

FeedTick(lat, hit) ==
    LET s == DwellState
        now == feed.t0 + feed.n * TickSpacing
        op == Branch(s, enabled, feed.p, now)
        t == updateGaze(s, enabled, feed.p, now, lat)
    IN  /\ feed.n < MaxTicks
        /\ clock <= now
        /\ SetDwell(t)
        /\ clock' = IF op = "click" THEN now + lat ELSE now
        /\ clickCount' = IF op = "click" THEN clickCount + 1 ELSE clickCount
        /\ lastClick' = ClickOf(op, s, lat, hit)
        /\ last' = Op(op, Some(feed.p), s, now)
        /\ feed' = [feed EXCEPT !.n = @ + 1,
                                !.peak = IF t.dwellProgress > @
                                         THEN t.dwellProgress ELSE @]
        /\ UNCHANGED <<enabled, accepted, plan, appVars>>

NextFeed == \E lat \in Latencies, hit \in Hits : FeedTick(lat, hit)

SpecFeed == InitFeed /\ [][NextFeed]_vars

\* ------------------------------------------------------------------------
\* The application's tasks
\* ------------------------------------------------------------------------
\* The render that follows a task's state updates, with the effects it
\* runs: the detector's reset effect when enabled changed, the loop effect
\* (updateGaze is a new function on every render), and the mapping effect
\* when eyeCoords, isTracking or mapToScreen changed.
Render(app, tracking, eye, cal, coeffs, dwell, newSample) ==
    LET en == EnabledFlag(app, cal.isComplete)
        mapDeps == newSample \/ eye # eyeCoords \/ tracking # isTracking
                   \/ coeffs # mappingCoeffs
    IN  /\ appState' = app
        /\ isTracking' = tracking
        /\ eyeCoords' = eye
        /\ calState' = cal
        /\ mappingCoeffs' = coeffs
        /\ enabled' = en
        /\ SetDwell(IF en # enabled THEN ResetWhenDisabled(dwell, en) ELSE dwell)
        /\ loop' = LoopEffect(loop, tracking, app, en, clock')
        /\ screenPosRef' = IF mapDeps
                           THEN MapEffect(screenPosRef, eye, tracking, coeffs, viewport)
                           ELSE screenPosRef

renderVars == <<appState, isTracking, eyeCoords, calState, mappingCoeffs, enabled,
                dwellVars, loop, screenPosRef>>

InitApp ==
    /\ clock = Epoch
    /\ enabled = FALSE
    /\ isDwelling = FALSE
    /\ dwellProgress = 0
    /\ dwellTarget = None
    /\ dwellStartTime = None
    /\ dwellCenter = None
    /\ lastClickTime = 0
    /\ clickCount = 0
    /\ lastClick = None
    /\ last = Op("init", None, InitialDwellState, Epoch)
    /\ feed = NoFeed
    /\ accepted = <<>>
    /\ plan = NoPlan
    /\ InitAppVars

AppAdvance(dt) ==
    /\ clock + dt <= Epoch + AppHorizon
    /\ clock' = clock + dt
    /\ last' = Op("advance", None, DwellState, clock)
    /\ UNCHANGED <<enabled, dwellVars, clickCount, lastClick, feed, accepted, plan, appVars>>

\* The start button: startTracking up to its first await.
StartRequest ==
    /\ appState = "permission"
    /\ ~isLoading
    /\ ~isTracking
    /\ session.n < MaxSessions
    /\ isLoading' = TRUE
    /\ error' = FALSE
    /\ clock' = clock
    /\ Render(appState, isTracking, eyeCoords, calState, mappingCoeffs, DwellState, FALSE)
    /\ last' = Op("startRequest", None, DwellState, clock)
    /\ UNCHANGED <<clickCount, lastClick, feed, accepted, plan, cameraOn, prevCoordsRef, pointerPos,
                   viewport, calibrationTargets, session>>

\* getUserMedia or the tracker rejects: the catch and finally blocks.
StartFail ==
    /\ isLoading
    /\ isLoading' = FALSE
    /\ error' = TRUE
    /\ clock' = clock
    /\ Render(appState, isTracking, eyeCoords, calState, mappingCoeffs, DwellState, FALSE)
    /\ last' = Op("startFail", None, DwellState, clock)
    /\ UNCHANGED <<clickCount, lastClick, feed, accepted, plan, cameraOn, prevCoordsRef, pointerPos,
                   viewport, calibrationTargets, session>>

\* The camera has started: setIsTracking(true), and the effect that starts
\* the calibration when tracking begins on the permission screen.
StartSucceed ==
    LET begins == appState = "permission"
    IN  /\ isLoading
        /\ isLoading' = FALSE
        /\ cameraOn' = TRUE
        /\ clock' = clock
        /\ Render(IF begins THEN "calibrating" ELSE appState, TRUE, eyeCoords,
                  IF begins THEN startCalibration ELSE calState,
                  IF begins THEN None ELSE mappingCoeffs, DwellState, FALSE)
        /\ session' = [session EXCEPT !.n = @ + 1, !.samples = 0, !.faceLost = FALSE]
        /\ last' = Op("startTracking", None, DwellState, clock)
        /\ UNCHANGED <<clickCount, lastClick, feed, accepted, plan, error, prevCoordsRef, pointerPos,
                       viewport, calibrationTargets>>

\* The tracker delivers a result with a face.
TrackerResult(raw) ==
    LET coords == onResults(prevCoordsRef, raw)
    IN  /\ cameraOn
        /\ session.frames < MaxFrames
        /\ prevCoordsRef' = Some(coords)
        /\ clock' = clock
        /\ Render(appState, isTracking, Some(coords), calState, mappingCoeffs,
                  DwellState, TRUE)
        /\ session' = [session EXCEPT !.frames = @ + 1, !.samples = @ + 1,
                                      !.faceLost = FALSE]
        /\ last' = Op("result", Some(raw), DwellState, clock)
        /\ UNCHANGED <<clickCount, lastClick, feed, accepted, plan, isLoading, error, cameraOn,
                       pointerPos, viewport, calibrationTargets>>

\* The tracker delivers a result without a face: onResults returns at once.
TrackerNoFace ==
    /\ cameraOn
    /\ session' = [session EXCEPT !.faceLost = TRUE]
    /\ last' = Op("noFace", None, DwellState, clock)
    /\ UNCHANGED <<clock, clickCount, lastClick, feed, accepted, plan, isLoading, error, cameraOn,
                   prevCoordsRef, pointerPos, viewport, calibrationTargets, renderVars>>

\* handleRecalibrate, handleStopTracking (with stopTracking), or no handler,
\* followed by the render; dwell is the detector's state when the handler
\* returns.
HandlerEffects(handler, dwell) ==
    CASE handler = "recalibrate" ->
            /\ cameraOn' = cameraOn
            /\ Render("calibrating", isTracking, eyeCoords, startCalibration, None,
                      dwell, FALSE)
      [] handler = "stop" ->
            /\ cameraOn' = FALSE
            /\ Render("permission", FALSE, None, resetCalibration, None, dwell, FALSE)
      [] OTHER ->
            /\ cameraOn' = cameraOn
            /\ Render(appState, isTracking, eyeCoords, calState, mappingCoeffs,
                      dwell, FALSE)

\* The branch an animation-frame callback takes.
TickOp(c, s) ==
    IF clock - c.lastTime < THROTTLE_MS THEN "throttled"
    ELSE IF c.appState # "dashboard" THEN "tick"
    ELSE Branch(s, c.enabled, screenPosRef, clock)

TickOps == GazeOps \cup {"tick", "throttled"}

\* The animation-frame callback updatePointer.
updatePointer(lat, hit) ==
    LET c == Val(loop)
        s == DwellState
        op == TickOp(c, s)
        t == IF op \in GazeOps
             THEN updateGaze(s, c.enabled, screenPosRef, clock, lat)
             ELSE s
    IN  /\ loop # None
        /\ clock' = IF op = "click" THEN clock + lat ELSE clock
        /\ clickCount' = IF op = "click" THEN clickCount + 1 ELSE clickCount
        /\ lastClick' = ClickOf(op, s, lat, hit)
        /\ last' = Op(op, Some(screenPosRef), s, clock)
        /\ IF op = "throttled"
           THEN UNCHANGED <<pointerPos, cameraOn, renderVars>>
           ELSE /\ pointerPos' = screenPosRef
                /\ HandlerEffects(IF op = "click" THEN hit ELSE "none", t)
        /\ UNCHANGED <<accepted, plan, isLoading, error, prevCoordsRef, viewport,
                       calibrationTargets, session>>

Tick(lat, hit) == updatePointer(lat, hit) /\ UNCHANGED feed

\* Calibration's keydown handler, Space: record the current sample.
KeySpace ==
    LET records == calState.isCalibrating /\ eyeCoords # None
        avg == Val(eyeCoords).average
        after == recordPoint(calState, calibrationTargets, avg.x, avg.y)
        coeffs == recordPointCoeffs(calState, after, mappingCoeffs)
    IN  /\ appState = "calibrating"
        /\ clock' = clock
        /\ IF records
           THEN Render(IF after.isComplete THEN "dashboard" ELSE appState,
                       isTracking, eyeCoords, after, coeffs, DwellState, FALSE)
           ELSE UNCHANGED renderVars
        /\ last' = Op("space", None, DwellState, clock)
        /\ UNCHANGED <<clickCount, lastClick, feed, accepted, plan, isLoading, error, cameraOn,
                       prevCoordsRef, pointerPos, viewport, calibrationTargets,
                       session>>

\* Calibration's keydown handler, Escape: handleSkipCalibration.
KeyEscape ==
    /\ appState = "calibrating"
    /\ clock' = clock
    /\ Render("dashboard", isTracking, eyeCoords, resetCalibration, None,
              DwellState, FALSE)
    /\ last' = Op("escape", None, DwellState, clock)
    /\ UNCHANGED <<clickCount, lastClick, feed, accepted, plan, isLoading, error, cameraOn,
                   prevCoordsRef, pointerPos, viewport, calibrationTargets, session>>

\* A mouse click on the dashboard's Recalibrate button.
Recalibrate ==
    /\ appState = "dashboard"
    /\ clock' = clock
    /\ HandlerEffects("recalibrate", DwellState)
    /\ last' = Op("recalibrate", None, DwellState, clock)
    /\ UNCHANGED <<clickCount, lastClick, feed, accepted, plan, isLoading, error, prevCoordsRef,
                   pointerPos, viewport, calibrationTargets, session>>

\* A mouse click on the dashboard's Stop button.
StopTracking ==
    /\ appState = "dashboard"
    /\ clock' = clock
    /\ HandlerEffects("stop", DwellState)
    /\ last' = Op("stopTracking", None, DwellState, clock)
    /\ UNCHANGED <<clickCount, lastClick, feed, accepted, plan, isLoading, error, prevCoordsRef,
                   pointerPos, viewport, calibrationTargets, session>>

NextApp ==
    \/ \E dt \in AppSteps : AppAdvance(dt)
    \/ StartRequest
    \/ StartFail
    \/ StartSucceed
    \/ \E raw \in RawSamples : TrackerResult(raw)
    \/ TrackerNoFace
    \/ \E lat \in Latencies, hit \in AppHits : Tick(lat, hit)
    \/ KeySpace
    \/ KeyEscape
    \/ Recalibrate
    \/ StopTracking

SpecApp == InitApp /\ [][NextApp]_vars

\* ------------------------------------------------------------------------
\* The calibration session on its own: a caller starts, records, resets,
\* asks for mappings and resizes the window in any order.
\* ------------------------------------------------------------------------
\* Eye coordinates passed to recordPoint (not on one line).
CalEyes == {Pt(2, 2), Pt(8, 2), Pt(2, 8)}

\* Eye coordinates passed to mapToScreen: two corners of [0,1] x [0,1], a
\* point inside it and a point outside it.
QueryEyes == {Pt(0, 0), Pt(10, 10), Pt(5, 5), Pt(-3, 14)}

\* Sizes the window is resized to.
ResizedViewports == Viewports \cup {[w |-> 600, h |-> 400]}

InitCal ==
    /\ clock = Epoch
    /\ enabled = FALSE
    /\ isDwelling = FALSE
    /\ dwellProgress = 0
    /\ dwellTarget = None
    /\ dwellStartTime = None
    /\ dwellCenter = None
    /\ lastClickTime = 0
    /\ clickCount = 0
    /\ lastClick = None
    /\ last = Op("init", None, InitialDwellState, Epoch)
    /\ feed = NoFeed
    /\ accepted = <<>>
    /\ plan = NoPlan
    /\ InitAppVars

otherVars == <<clock, enabled, dwellVars, clickCount, lastClick, feed, plan, appState,
               isLoading, isTracking, error, cameraOn, eyeCoords, prevCoordsRef,
               screenPosRef, pointerPos, loop, calibrationTargets, session>>

\* What a start or a reset throws away: the session's phase, the number of
\* stored points and whether coefficients were held.
Discarded ==
    [isCalibrating |-> calState.isCalibrating, isComplete |-> calState.isComplete,
     points |-> Len(calState.calibrationPoints), coeffs |-> mappingCoeffs # None]

CalStart ==
    /\ calState' = startCalibration
    /\ mappingCoeffs' = None
    /\ accepted' = <<>>
    /\ last' = Op("startCalibration", Some(Discarded), DwellState, clock)
    /\ UNCHANGED <<viewport, otherVars>>

CalRecord(e) ==
    LET after == recordPoint(calState, calibrationTargets, e.x, e.y)
    IN  /\ calState' = after
        /\ mappingCoeffs' = recordPointCoeffs(calState, after, mappingCoeffs)
        /\ accepted' = IF calState.isCalibrating THEN Append(accepted, e) ELSE accepted
        /\ last' = Op("recordPoint", Some(e), DwellState, clock)
        /\ UNCHANGED <<viewport, otherVars>>

CalReset ==
    /\ calState' = resetCalibration
    /\ mappingCoeffs' = None
    /\ accepted' = <<>>
    /\ last' = Op("resetCalibration", Some(Discarded), DwellState, clock)
    /\ UNCHANGED <<viewport, otherVars>>

\* The window is resized; the memoized targets stay as they are.
CalResize(vp) ==
    /\ vp # viewport
    /\ viewport' = vp
    /\ last' = Op("resize", None, DwellState, clock)
    /\ UNCHANGED <<calState, mappingCoeffs, accepted, otherVars>>

\* A call of mapToScreen; the call and its result are recorded in last.
CalQuery(e) ==
    /\ last' = Op("mapToScreen",
                  Some([eye |-> e,
                        out |-> mapToScreen(e.x, e.y, mappingCoeffs, viewport)]),
                  DwellState, clock)
    /\ UNCHANGED <<calState, mappingCoeffs, accepted, viewport, otherVars>>

NextCal ==
    \/ CalStart
    \/ \E e \in CalEyes : CalRecord(e)
    \/ CalReset
    \/ \E vp \in ResizedViewports : CalResize(vp)
    \/ \E e \in QueryEyes : CalQuery(e)

SpecCal == InitCal /\ [][NextCal]_vars

\* ------------------------------------------------------------------------
\* The calibration scenario: the user looks at each target in turn from a
\* head position for which the eye coordinates are an affine image of the
\* target grid, nine points are recorded in order, and mappings are asked
\* for afterwards.
\* ------------------------------------------------------------------------
\* A layout places the eye position for the target in column col and row
\* row (0..2) at (ox + sx*col + kx*row, oy + sy*row); mirror counts the
\* columns from the right, as a mirrored camera does.
Layouts ==
    [ox : {1, 2}, oy : {1}, sx : {1, 4}, sy : {2, 4}, kx : {0, 1}, mirror : BOOLEAN]

\* The eye position the layout gives for target k (k = 0..8).
EyeOf(layout, k) ==
    LET col == (CALIBRATION_POSITIONS[k + 1].x - 1) \div 4
        row == (CALIBRATION_POSITIONS[k + 1].y - 1) \div 4
        c == IF layout.mirror THEN 2 - col ELSE col
    IN  Pt(layout.ox + layout.sx * c + layout.kx * row, layout.oy + layout.sy * row)

\* Viewports of the scenario (the 1000 x 1000 one is the spec's example).
FitViewports == Viewports \cup {[w |-> 1000, h |-> 1000]}

\* Eye coordinates mapped after the calibration.
HeldOut == {Pt(5, 5), Pt(3, 2), Pt(0, 0), Pt(12, 4)}

InitFit ==
    /\ clock = Epoch
    /\ enabled = FALSE
    /\ isDwelling = FALSE
    /\ dwellProgress = 0
    /\ dwellTarget = None
    /\ dwellStartTime = None
    /\ dwellCenter = None
    /\ lastClickTime = 0
    /\ clickCount = 0
    /\ lastClick = None
    /\ last = Op("init", None, InitialDwellState, Epoch)
    /\ feed = NoFeed
    /\ accepted = <<>>
    /\ plan \in Layouts
    /\ appState = "permission"
    /\ isLoading = FALSE
    /\ isTracking = FALSE
    /\ error = FALSE
    /\ cameraOn = FALSE
    /\ eyeCoords = None
    /\ prevCoordsRef = None
    /\ screenPosRef = Pt(0, 0)
    /\ pointerPos = Pt(0, 0)
    /\ loop = None
    /\ calState = IdleCalibration
    /\ mappingCoeffs = None
    /\ viewport \in FitViewports
    /\ calibrationTargets = Targets(viewport)
    /\ session = NoSession

FitStart ==
    /\ ~calState.isCalibrating
    /\ ~calState.isComplete
    /\ CalStart

FitRecord ==
    /\ calState.isCalibrating
    /\ CalRecord(EyeOf(plan, calState.currentPointIndex))

FitQuery(e) ==
    /\ calState.isComplete
    /\ CalQuery(e)

NextFit ==
    \/ FitStart
    \/ FitRecord
    \/ \E e \in HeldOut : FitQuery(e)

SpecFit == InitFit /\ [][NextFit]_vars

\* ------------------------------------------------------------------------
\* The sample smoother alone: useEyeTracking.onResults, from the landmarks
\* of a result to the stored and exposed sample.  Landmark coordinates are
\* integers in thousandths of the frame; the faces are chosen so that the
\* halvings of onResults are exact.
\* ------------------------------------------------------------------------
LEFT_IRIS_CENTER == 468
RIGHT_IRIS_CENTER == 473

MaxSmoothSamples == 3

\* The landmarks onResults reads: eye corners 33, 133, 362, 263 and, with
\* iris refinement, the iris centres.
Faces ==
    { [l33 |-> Pt(300, 400), l133 |-> Pt(380, 400), l362 |-> Pt(620, 400),
       l263 |-> Pt(700, 400), l468 |-> Pt(340, 404), l473 |-> Pt(660, 404)],
      [l33 |-> Pt(100, 600), l133 |-> Pt(180, 620), l362 |-> Pt(420, 600),
       l263 |-> Pt(500, 620), l468 |-> Pt(150, 610), l473 |-> Pt(450, 610)],
      [l33 |-> Pt(700, 200), l133 |-> Pt(780, 200), l362 |-> Pt(900, 220),
       l263 |-> Pt(980, 220), l468 |-> Pt(744, 208), l473 |-> Pt(936, 212)] }

\* results.multiFaceLandmarks[0]: 478 landmarks with iris refinement, 468
\* without.
Landmarks(face, refined) ==
    [length |-> IF refined THEN 478 ELSE 468,
     at |-> [i \in (IF refined THEN {33, 133, 263, 362, 468, 473}
                               ELSE {33, 133, 263, 362}) |->
                CASE i = 33 -> face.l33
                  [] i = 133 -> face.l133
                  [] i = 263 -> face.l263
                  [] i = 362 -> face.l362
                  [] i = 468 -> face.l468
                  [] OTHER -> face.l473]]

TrackerResults == {Landmarks(f, r) : f \in Faces, r \in BOOLEAN}

\* The midpoint of two landmarks.
Midpoint(a, b) == Pt((a.x + b.x) \div 2, (a.y + b.y) \div 2)

\* rawCoords of the eye-corner fallback path.
FallbackRaw(landmarks) ==
    LET leftEye == Midpoint(landmarks.at[33], landmarks.at[133])
        rightEye == Midpoint(landmarks.at[362], landmarks.at[263])
    IN  [leftIris |-> leftEye, rightIris |-> rightEye,
         average |-> Midpoint(leftEye, rightEye)]

\* Mutant: the fallback path passes its raw sample on unsmoothed.
FallbackUnsmoothed(prev, rawCoords) == rawCoords

\* The smoothing of the fallback path.
FallbackSmoothed(prev, rawCoords) ==
    IF prev # None
    THEN [leftIris |->
              Pt(Blend(Val(prev).leftIris.x, rawCoords.leftIris.x, SMOOTHING_FACTOR),
                 Blend(Val(prev).leftIris.y, rawCoords.leftIris.y, SMOOTHING_FACTOR)),
          rightIris |->
              Pt(Blend(Val(prev).rightIris.x, rawCoords.rightIris.x, SMOOTHING_FACTOR),
                 Blend(Val(prev).rightIris.y, rawCoords.rightIris.y, SMOOTHING_FACTOR)),
          average |->
              Pt(Blend(Val(prev).average.x, rawCoords.average.x, SMOOTHING_FACTOR),
                 Blend(Val(prev).average.y, rawCoords.average.y, SMOOTHING_FACTOR))]
    ELSE rawCoords

\* rawCoords of the iris-landmark path.
IrisRaw(landmarks) ==
    LET leftIris == landmarks.at[LEFT_IRIS_CENTER]
        rightIris == landmarks.at[RIGHT_IRIS_CENTER]
    IN  [leftIris |-> Pt(leftIris.x, leftIris.y),
         rightIris |-> Pt(rightIris.x, rightIris.y),
         average |-> Pt((leftIris.x + rightIris.x) \div 2,
                        (leftIris.y + rightIris.y) \div 2)]

\* onResults for a result with a face: the sample stored in prevCoordsRef
\* and passed to setEyeCoords.
onResultsWithFace(prev, landmarks) ==
    IF landmarks.length <= RIGHT_IRIS_CENTER
    THEN FallbackSmoothed(prev, FallbackRaw(landmarks))
    ELSE onResults(prev, IrisRaw(landmarks))

InitSmooth == InitCal

smoothOther == <<clock, enabled, dwellVars, clickCount, lastClick, feed, accepted, plan,
                 appState, isLoading, isTracking, error, cameraOn, screenPosRef,
                 pointerPos, loop, calState, mappingCoeffs, viewport,
                 calibrationTargets>>

\* The tracker delivers a result with a face.
SmoothResult(landmarks) ==
    LET coords == onResultsWithFace(prevCoordsRef, landmarks)
    IN  /\ session.samples < MaxSmoothSamples
        /\ prevCoordsRef' = Some(coords)
        /\ eyeCoords' = Some(coords)
        /\ session' = [session EXCEPT !.samples = @ + 1, !.faceLost = FALSE]
        /\ last' = Op("onResults", Some(landmarks), DwellState, clock)
        /\ UNCHANGED smoothOther

\* The tracker delivers a result without a face: onResults returns at once.
SmoothNoFace ==
    /\ session' = [session EXCEPT !.faceLost = TRUE]
    /\ last' = Op("onResults", None, DwellState, clock)
    /\ UNCHANGED <<prevCoordsRef, eyeCoords, smoothOther>>

NextSmooth ==
    \/ \E landmarks \in TrackerResults : SmoothResult(landmarks)
    \/ SmoothNoFace

SpecSmooth == InitSmooth /\ [][NextSmooth]_vars

\* ------------------------------------------------------------------------
\* A steady stream: the tracker delivers one and the same sample again and
\* again.  Stage "sample" is useEyeTracking alone, on landmarks in
\* thousandths of the frame, after an earlier result (start) or none; stage
\* "pointer" is the App while calibrating, the steady sample (in tenths)
\* being the first of the session, with the pointer position left at start.
\* ------------------------------------------------------------------------
MaxStreamSamples == 24

\* Pointer positions an earlier session may have left in screenPosRef.
StartPositions == {Pt(0, 0), Pt(1000, 800), Pt(637, 211)}

Streams ==
    [stage : {"sample"}, start : {None} \cup {Some(r) : r \in TrackerResults},
     steady : TrackerResults]
    \cup [stage : {"pointer"}, start : StartPositions, steady : RawSamples]

InitStream ==
    /\ clock = Epoch
    /\ enabled = FALSE
    /\ isDwelling = FALSE
    /\ dwellProgress = 0
    /\ dwellTarget = None
    /\ dwellStartTime = None
    /\ dwellCenter = None
    /\ lastClickTime = 0
    /\ clickCount = 0
    /\ lastClick = None
    /\ last = Op("init", None, InitialDwellState, Epoch)
    /\ feed = NoFeed
    /\ accepted = <<>>
    /\ plan \in Streams
    /\ isLoading = FALSE
    /\ error = FALSE
    /\ pointerPos = Pt(0, 0)
    /\ mappingCoeffs = None
    /\ viewport \in Viewports
    /\ calibrationTargets = Targets(viewport)
    /\ session = NoSession
    /\ IF plan.stage = "sample"
       THEN /\ appState = "permission"
            /\ isTracking = FALSE
            /\ cameraOn = FALSE
            /\ calState = IdleCalibration
            /\ loop = None
            /\ screenPosRef = Pt(0, 0)
            /\ prevCoordsRef = IF plan.start = None THEN None
                               ELSE Some(onResultsWithFace(None, Val(plan.start)))
            /\ eyeCoords = prevCoordsRef
       ELSE /\ appState = "calibrating"
            /\ isTracking = TRUE
            /\ cameraOn = TRUE
            /\ calState = startCalibration
            /\ loop = LoopEffect(None, TRUE, "calibrating", FALSE, Epoch)
            /\ screenPosRef = plan.start
            /\ prevCoordsRef = None
            /\ eyeCoords = None

\* The tracker delivers the steady result to useEyeTracking.
StreamSample ==
    LET coords == onResultsWithFace(prevCoordsRef, plan.steady)
    IN  /\ plan.stage = "sample"
        /\ session.samples < MaxStreamSamples
        /\ prevCoordsRef' = Some(coords)
        /\ eyeCoords' = Some(coords)
        /\ session' = [session EXCEPT !.samples = @ + 1]
        /\ last' = Op("onResults", Some(plan.steady), DwellState, clock)
        /\ UNCHANGED smoothOther

\* The tracker delivers the steady sample to the App: onResults, the
\* render, and the mapping effect.
StreamPointer ==
    LET coords == onResults(prevCoordsRef, plan.steady)
    IN  /\ plan.stage = "pointer"
        /\ session.samples < MaxStreamSamples
        /\ prevCoordsRef' = Some(coords)
        /\ clock' = clock
        /\ Render(appState, isTracking, Some(coords), calState, mappingCoeffs,
                  DwellState, TRUE)
        /\ session' = [session EXCEPT !.samples = @ + 1]
        /\ last' = Op("result", Some(plan.steady), DwellState, clock)
        /\ UNCHANGED <<clickCount, lastClick, feed, accepted, plan, isLoading, error,
                       cameraOn, pointerPos, viewport, calibrationTargets>>

NextStream == StreamSample \/ StreamPointer

SpecStream == InitStream /\ [][NextStream]_vars

\* The tracker keeps delivering results while the camera runs.
SpecStreamLive == SpecStream /\ WF_vars(NextStream)

\* ------------------------------------------------------------------------
\* The App with the clock advancing in steps around the throttle interval.
\* feed is the log of the loop's logical updates: feed.t0 is the time of
\* the last one and feed.n their number.
\* ------------------------------------------------------------------------
ThrottleHorizon == 34

ThrottleSteps == {1, THROTTLE_MS - 1}

\* The sample the tracker delivers (average (2,2)).
ThrottleSamples == {EyeCoordinates(Pt(1, 2), Pt(3, 2))}

ThrottleAdvance(dt) ==
    /\ clock + dt <= Epoch + ThrottleHorizon
    /\ clock' = clock + dt
    /\ last' = Op("advance", None, DwellState, clock)
    /\ UNCHANGED <<enabled, dwellVars, clickCount, lastClick, feed, accepted, plan, appVars>>

\* The animation-frame callback, logged.
ThrottleTick(lat, hit) ==
    /\ updatePointer(lat, hit)
    /\ feed' = IF last'.op = "throttled" THEN feed
               ELSE [feed EXCEPT !.t0 = clock, !.n = @ + 1]

NextThrottle ==
    \/ \E dt \in ThrottleSteps : ThrottleAdvance(dt)
    \/ StartRequest
    \/ StartSucceed
    \/ \E raw \in ThrottleSamples : TrackerResult(raw)
    \/ \E lat \in Latencies, hit \in AppHits : ThrottleTick(lat, hit)
    \/ KeyEscape
    \/ Recalibrate
    \/ StopTracking

SpecThrottle == InitApp /\ [][NextThrottle]_vars

\* ------------------------------------------------------------------------
\* The detector on its own over a span long enough for several clicks.
\* ------------------------------------------------------------------------
\* Time is explored up to Epoch + ClickHorizon: a first click needs
\* dwellDuration, every further one cooldownDuration + dwellDuration.
ClickHorizon == 2200

\* Amounts by which the clock advances between two tasks: half a dwell and
\* one cooldown (with the click latency, times off this grid occur too).
ClickSteps == {dwellDuration \div 2, cooldownDuration}

\* The log of the dwell in progress, kept beside the detector: p is the
\* sample that started (or restarted) it, t0 the time of that call, peak the
\* largest squared distance from p of a sample accepted since.
\* n is 1 once a sample has been accepted since enabled last became true,
\* and since is the time at which it did (the page load if it never changed).
NoDwellLog == [p |-> Pt(0, 0), t0 |-> 0, n |-> 0, peak |-> 0, since |-> Epoch]

DwellLog(op, p, now) ==
    IF op \in {"start", "restart"}
    THEN [feed EXCEPT !.p = p, !.t0 = now, !.peak = 0, !.n = 1]
    ELSE IF op \in {"progress", "click"}
         THEN [feed EXCEPT !.n = 1,
                           !.peak = IF distanceSq(p, feed.p) > @
                                    THEN distanceSq(p, feed.p) ELSE @]
         ELSE feed

InitClicks ==
    /\ clock = Epoch
    /\ enabled \in BOOLEAN
    /\ isDwelling = FALSE
    /\ dwellProgress = 0
    /\ dwellTarget = None
    /\ dwellStartTime = None
    /\ dwellCenter = None
    /\ lastClickTime = 0
    /\ clickCount = 0
    /\ lastClick = None
    /\ last = Op("init", None, InitialDwellState, Epoch)
    /\ feed = NoDwellLog
    /\ accepted = <<>>
    /\ plan = NoPlan
    /\ InitAppVars

ClickAdvance(dt) ==
    /\ clock + dt <= Epoch + ClickHorizon
    /\ clock' = clock + dt
    /\ last' = Op("advance", None, DwellState, clock)
    /\ UNCHANGED <<enabled, dwellVars, clickCount, lastClick, feed, accepted, plan, appVars>>

ClickGaze(p, lat, hit) ==
    /\ GazeCall(p, lat, hit)
    /\ feed' = DwellLog(Branch(DwellState, enabled, p, clock), p, clock)

\* The owner re-renders with another enabled flag.
ClickEnable(b) ==
    /\ EnabledChange(b)
    /\ feed' = IF b THEN [feed EXCEPT !.since = clock, !.n = 0]
                ELSE [feed EXCEPT !.p = NoDwellLog.p, !.t0 = NoDwellLog.t0,
                                  !.peak = NoDwellLog.peak]

NextClicks ==
    \/ \E dt \in ClickSteps : ClickAdvance(dt)
    \/ \E p \in Points, lat \in Latencies, hit \in Hits : ClickGaze(p, lat, hit)
    \/ \E b \in BOOLEAN : ClickEnable(b)

SpecClicks == InitClicks /\ [][NextClicks]_vars

\* ------------------------------------------------------------------------
\* The phases of the app, with every effect of App as a step of its own:
\* an event handler or callback and the render it causes is one step, the
\* effect that reacts to that render (and the render it causes) the next.
\* Time stands still, so every animation frame is throttled.
\* ------------------------------------------------------------------------
\* Mutant: the effect waits for coefficients, not for isComplete.
DashboardDueWithCoeffs(cal, coeffs, app) == coeffs # None /\ app = "calibrating"

\* "Move to dashboard when calibration completes": the effect's condition.
DashboardDue(cal, coeffs, app) == cal.isComplete /\ app = "calibrating"

\* "Start calibration when tracking begins": the effect's condition.
StartDue(tracking, app) == tracking /\ app = "permission"

phaseOther == <<clickCount, lastClick, feed, accepted, plan, isLoading, error,
                cameraOn, prevCoordsRef, pointerPos, viewport,
                calibrationTargets, session>>

\* The camera has started: setIsTracking(true) and setIsLoading(false).
PhaseStarted ==
    /\ isLoading
    /\ isLoading' = FALSE
    /\ cameraOn' = TRUE
    /\ clock' = clock
    /\ Render(appState, TRUE, eyeCoords, calState, mappingCoeffs, DwellState, FALSE)
    /\ session' = [session EXCEPT !.n = @ + 1, !.samples = 0, !.faceLost = FALSE]
    /\ last' = Op("startTracking", None, DwellState, clock)
    /\ UNCHANGED <<clickCount, lastClick, feed, accepted, plan, error, prevCoordsRef,
                   pointerPos, viewport, calibrationTargets>>

\* The effect: setAppState('calibrating'); startCalibration().
StartEffect ==
    /\ StartDue(isTracking, appState)
    /\ clock' = clock
    /\ Render("calibrating", isTracking, eyeCoords, startCalibration, None,
              DwellState, FALSE)
    /\ last' = Op("startEffect", None, DwellState, clock)
    /\ UNCHANGED phaseOther

\* Calibration's keydown handler, Space, and the render of the new session
\* state.
PhaseSpace ==
    LET records == calState.isCalibrating /\ eyeCoords # None
        avg == Val(eyeCoords).average
        after == recordPoint(calState, calibrationTargets, avg.x, avg.y)
        coeffs == recordPointCoeffs(calState, after, mappingCoeffs)
    IN  /\ appState = "calibrating"
        /\ clock' = clock
        /\ IF records
           THEN Render(appState, isTracking, eyeCoords, after, coeffs, DwellState, FALSE)
           ELSE UNCHANGED renderVars
        /\ last' = Op("space", None, DwellState, clock)
        /\ UNCHANGED phaseOther

\* The effect: setAppState('dashboard').
DashboardEffect ==
    /\ DashboardDue(calState, mappingCoeffs, appState)
    /\ clock' = clock
    /\ Render("dashboard", isTracking, eyeCoords, calState, mappingCoeffs,
              DwellState, FALSE)
    /\ last' = Op("dashboardEffect", None, DwellState, clock)
    /\ UNCHANGED phaseOther

NextPhase ==
    \/ StartRequest
    \/ StartFail
    \/ PhaseStarted
    \/ StartEffect
    \/ \E raw \in RawSamples : TrackerResult(raw)
    \/ \E lat \in Latencies, hit \in AppHits : Tick(lat, hit)
    \/ PhaseSpace
    \/ DashboardEffect
    \/ KeyEscape
    \/ Recalibrate
    \/ StopTracking

SpecPhase == InitApp /\ [][NextPhase]_vars

\* An effect whose condition holds after a render is run by React before
\* anything else is rendered.
SpecPhaseLive ==
    SpecPhase /\ WF_vars(StartEffect) /\ WF_vars(DashboardEffect)

\* ------------------------------------------------------------------------
\* The app with the tracker's two halves apart: the camera's onFrame sends a
\* frame (faceMesh.send, awaited), the tracker calls onResults later.  A
\* frame that is in flight when tracking is stopped is either still
\* delivered or discarded by the closed tracker.
\* ------------------------------------------------------------------------
\* Time is explored up to Epoch + FlightHorizon, in steps of THROTTLE_MS.
FlightHorizon == 32

FlightAdvance(dt) ==
    /\ clock + dt <= Epoch + FlightHorizon
    /\ clock' = clock + dt
    /\ last' = Op("advance", None, DwellState, clock)
    /\ UNCHANGED <<enabled, dwellVars, clickCount, lastClick, feed, accepted, plan, appVars>>

\* The camera's onFrame: faceMeshRef.current.send({ image }).
FrameSent ==
    /\ cameraOn
    /\ ~session.inFlight
    /\ session.frames < MaxFrames
    /\ session' = [session EXCEPT !.inFlight = TRUE, !.frames = @ + 1]
    /\ last' = Op("frame", None, DwellState, clock)
    /\ UNCHANGED <<clock, clickCount, lastClick, feed, accepted, plan, isLoading, error,
                   cameraOn, prevCoordsRef, pointerPos, viewport, calibrationTargets,
                   renderVars>>

\* The tracker delivers the result of the frame in flight, with a face:
\* onResults, which tests neither isTracking nor the refs that stopTracking
\* clears.
FlightResult(raw) ==
    LET coords == onResults(prevCoordsRef, raw)
    IN  /\ session.inFlight
        /\ prevCoordsRef' = Some(coords)
        /\ clock' = clock
        /\ Render(appState, isTracking, Some(coords), calState, mappingCoeffs,
                  DwellState, TRUE)
        /\ session' = [session EXCEPT !.inFlight = FALSE, !.samples = @ + 1,
                                      !.faceLost = FALSE]
        /\ last' = Op("result", Some(raw), DwellState, clock)
        /\ UNCHANGED <<clickCount, lastClick, feed, accepted, plan, isLoading, error, cameraOn,
                       pointerPos, viewport, calibrationTargets>>

\* The frame in flight yields nothing: no face in it, or the tracker was
\* closed before its result was due.
FlightDropped ==
    /\ session.inFlight
    /\ session' = [session EXCEPT !.inFlight = FALSE, !.faceLost = cameraOn]
    /\ last' = Op("noFace", None, DwellState, clock)
    /\ UNCHANGED <<clock, clickCount, lastClick, feed, accepted, plan, isLoading, error, cameraOn,
                   prevCoordsRef, pointerPos, viewport, calibrationTargets, renderVars>>

NextFlight ==
    \/ FlightAdvance(THROTTLE_MS)
    \/ StartRequest
    \/ StartFail
    \/ StartSucceed
    \/ FrameSent
    \/ \E raw \in RawSamples : FlightResult(raw)
    \/ FlightDropped
    \/ \E lat \in Latencies, hit \in AppHits : Tick(lat, hit)
    \/ KeySpace
    \/ KeyEscape
    \/ Recalibrate
    \/ StopTracking

SpecFlight == InitApp /\ [][NextFlight]_vars

\* ------------------------------------------------------------------------
\* The animation-frame loop effect of App on its own, with the browser's
\* list of requested frames and rafIdRef explicit.  In this part loop is
\*   [pending, rafIdRef, cleanup, dirty, ids]:
\* pending are the requested frames that have neither fired nor been
\* cancelled, each with its id and its callback's closure (appState and
\* lastTime); rafIdRef is the id stored last (0 for null); cleanup tells
\* whether the effect's last run returned a cleanup function; dirty tells
\* whether a render has been committed whose effects have not run yet; ids
\* counts the requestAnimationFrame calls.  App is rendered as its handlers
\* and callbacks make it: inside a keyboard or click event the render and
\* its effects follow the handler at once, otherwise the effects run in a
\* later task.
\* ------------------------------------------------------------------------
\* requestAnimationFrame calls in one run.
MaxRequests == 9
\* Time is explored up to Epoch + LoopHorizon, in steps of THROTTLE_MS.
LoopHorizon == 48

NoLoop == [pending |-> {}, rafIdRef |-> 0, cleanup |-> FALSE, dirty |-> FALSE,
           ids |-> 0]

\* rafIdRef.current = requestAnimationFrame(updatePointer)
requestFrame(l, app, lastTime) ==
    [l EXCEPT !.ids = @ + 1,
              !.rafIdRef = l.ids + 1,
              !.pending = @ \cup {[id |-> l.ids + 1, appState |-> app,
                                   lastTime |-> lastTime]}]

\* Mutant: the cleanup cancels nothing.
cancelNothing(l) == l

\* The effect's cleanup:
\* if (rafIdRef.current) cancelAnimationFrame(rafIdRef.current).
cancelFrame(l) ==
    IF l.rafIdRef # 0
    THEN [l EXCEPT !.pending = {f \in @ : f.id # l.rafIdRef}]
    ELSE l

\* One run of the effect after a render with the given tracking flag and
\* phase: the cleanup of the previous run, then the body.
runLoopEffect(l, tracking, app, now) ==
    LET c == IF l.cleanup THEN cancelFrame(l) ELSE l
    IN  IF ~tracking
        THEN [c EXCEPT !.cleanup = FALSE, !.dirty = FALSE]
        ELSE [requestFrame(c, app, now) EXCEPT !.cleanup = TRUE, !.dirty = FALSE]

\* Effects still pending are run before the next render.
Flushed(l) == IF l.dirty THEN runLoopEffect(l, isTracking, appState, clock) ELSE l

\* The renders of App: [tracking, app, sync] is a render with that tracking
\* flag and phase, inside a keyboard or click event (sync) or not.
LoopRenders ==
    {[tracking |-> isTracking, app |-> appState, sync |-> FALSE]}
    \cup (IF ~isTracking /\ appState = "permission"
          THEN {[tracking |-> TRUE, app |-> "permission", sync |-> FALSE]}
          ELSE {})
    \cup (IF StartDue(isTracking, appState)
          THEN {[tracking |-> TRUE, app |-> "calibrating", sync |-> FALSE]}
          ELSE {})
    \cup (IF appState = "calibrating"
          THEN {[tracking |-> isTracking, app |-> "dashboard", sync |-> TRUE]}
          ELSE {})
    \cup (IF appState = "dashboard"
          THEN {[tracking |-> isTracking, app |-> "calibrating", sync |-> TRUE],
                [tracking |-> FALSE, app |-> "permission", sync |-> TRUE]}
          ELSE {})

InitLoop ==
    /\ clock = Epoch
    /\ enabled = FALSE
    /\ isDwelling = FALSE
    /\ dwellProgress = 0
    /\ dwellTarget = None
    /\ dwellStartTime = None
    /\ dwellCenter = None
    /\ lastClickTime = 0
    /\ clickCount = 0
    /\ lastClick = None
    /\ last = Op("init", None, InitialDwellState, Epoch)
    /\ feed = NoFeed
    /\ accepted = <<>>
    /\ plan = NoPlan
    /\ appState = "permission"
    /\ isLoading = FALSE
    /\ isTracking = FALSE
    /\ error = FALSE
    /\ cameraOn = FALSE
    /\ eyeCoords = None
    /\ prevCoordsRef = None
    /\ screenPosRef = Pt(0, 0)
    /\ pointerPos = Pt(0, 0)
    /\ loop = NoLoop
    /\ calState = IdleCalibration
    /\ mappingCoeffs = None
    /\ viewport \in Viewports
    /\ calibrationTargets = Targets(viewport)
    /\ session = NoSession

loopOther == <<enabled, dwellVars, clickCount, lastClick, feed, accepted, plan,
               isLoading, error, cameraOn, eyeCoords, prevCoordsRef, screenPosRef,
               calState, mappingCoeffs, viewport, calibrationTargets, session>>

LoopAdvance(dt) ==
    /\ clock + dt <= Epoch + LoopHorizon
    /\ clock' = clock + dt
    /\ last' = Op("advance", None, DwellState, clock)
    /\ UNCHANGED <<isTracking, appState, loop, pointerPos, loopOther>>

\* App is rendered.
LoopRender(r) ==
    /\ loop.ids + 2 <= MaxRequests
    /\ isTracking' = r.tracking
    /\ appState' = r.app
    /\ loop' = IF r.sync
               THEN runLoopEffect(Flushed(loop), r.tracking, r.app, clock)
               ELSE [Flushed(loop) EXCEPT !.dirty = TRUE]
    /\ last' = Op("render", None, DwellState, clock)
    /\ UNCHANGED <<clock, pointerPos, loopOther>>

\* The effects of the last render run.
LoopEffects ==
    /\ loop.dirty
    /\ loop.ids < MaxRequests
    /\ loop' = runLoopEffect(loop, isTracking, appState, clock)
    /\ last' = Op("effects", None, DwellState, clock)
    /\ UNCHANGED <<clock, isTracking, appState, pointerPos, loopOther>>

\* A requested frame fires: updatePointer with the closure of the effect run
\* that requested it; when it is not throttled, setPointerPos re-renders App.
LoopFrame(f) ==
    LET throttled == clock - f.lastTime < THROTTLE_MS
        fired == [loop EXCEPT !.pending = @ \ {f}]
        again == requestFrame(fired, f.appState,
                              IF throttled THEN f.lastTime ELSE clock)
    IN  /\ f \in loop.pending
        /\ loop.ids + 2 <= MaxRequests
        /\ pointerPos' = IF throttled THEN pointerPos ELSE screenPosRef
        /\ loop' = IF throttled THEN again
                   ELSE [Flushed(again) EXCEPT !.dirty = TRUE]
        /\ last' = Op(IF throttled THEN "throttled"
                      ELSE IF f.appState = "dashboard" THEN "updateGaze"
                      ELSE "tick", None, DwellState, clock)
        /\ UNCHANGED <<clock, isTracking, appState, loopOther>>

NextLoop ==
    \/ LoopAdvance(THROTTLE_MS)
    \/ \E r \in LoopRenders : LoopRender(r)
    \/ LoopEffects
    \/ \E f \in loop.pending : LoopFrame(f)

SpecLoop == InitLoop /\ [][NextLoop]_vars

\* ------------------------------------------------------------------------
\* The pointer position under gaze samples on the border of [0,1] x [0,1]:
\* one tracking session of the app with tracker results at three corners,
\* long enough in frames for a calibration on three eye positions followed
\* by a further sample.
\* ------------------------------------------------------------------------
\* Tracker results with a face that are delivered in one run.
PointerFrames == 4
\* Time is explored up to Epoch + PointerHorizon, in steps of THROTTLE_MS.
PointerHorizon == 16

\* Raw samples with both eyes at one corner: (0,0), (1,0), (0,1).
PointerSamples ==
    {EyeCoordinates(Pt(0, 0), Pt(0, 0)),
     EyeCoordinates(Pt(GazeScale, 0), Pt(GazeScale, 0)),
     EyeCoordinates(Pt(0, GazeScale), Pt(0, GazeScale))}

PointerAdvance(dt) ==
    /\ clock + dt <= Epoch + PointerHorizon
    /\ clock' = clock + dt
    /\ last' = Op("advance", None, DwellState, clock)
    /\ UNCHANGED <<enabled, dwellVars, clickCount, lastClick, feed, accepted, plan, appVars>>

\* The tracker delivers a result with a face.
PointerResult(raw) ==
    LET coords == onResults(prevCoordsRef, raw)
    IN  /\ cameraOn
        /\ session.frames < PointerFrames
        /\ prevCoordsRef' = Some(coords)
        /\ clock' = clock
        /\ Render(appState, isTracking, Some(coords), calState, mappingCoeffs,
                  DwellState, TRUE)
        /\ session' = [session EXCEPT !.frames = @ + 1, !.samples = @ + 1,
                                      !.faceLost = FALSE]
        /\ last' = Op("result", Some(raw), DwellState, clock)
        /\ UNCHANGED <<clickCount, lastClick, feed, accepted, plan, isLoading, error, cameraOn,
                       pointerPos, viewport, calibrationTargets>>

NextPointer ==
    \/ PointerAdvance(THROTTLE_MS)
    \/ StartRequest
    \/ StartSucceed
    \/ \E raw \in PointerSamples : PointerResult(raw)
    \/ \E lat \in Latencies, hit \in AppHits : Tick(lat, hit)
    \/ KeySpace
    \/ KeyEscape

SpecPointer == InitApp /\ [][NextPointer]_vars

\* ========================================================================
\* Properties
\* ========================================================================
\* The step is a call of updateGaze (every action records itself in last).
GazeStep == last'.op \in GazeOps
\* The sample that call was given.
Sample == Val(last'.p)

IsIdle == dwellCenter = None /\ dwellStartTime = None

WithinRadius(p) ==
    /\ dwellCenter # None
    /\ distanceSq(p, Val(dwellCenter)) <= dwellRadius * dwellRadius

\* Ticks of the dwell scenario after which elapsed time is dwellDuration.
TicksToFull == dwellDuration \div TickSpacing

\* ---- C1 ----------------------------------------------------------------
C1_Pre ==
    /\ enabled
    /\ clock - lastClickTime >= cooldownDuration
    /\ dwellStartTime # None
    /\ WithinRadius(Sample)
    /\ clock - Val(dwellStartTime) >= dwellDuration

C1_Effect ==
    /\ clickCount' = clickCount + 1
    /\ Val(lastClick').at = Val(dwellCenter)
    /\ IsIdle'
    /\ dwellProgress' = 0
    /\ isDwelling' = FALSE

\* C1 as stated: an enabled updateGaze outside cooldown, with a sample within
\* dwellRadius of the active center and elapsed/dwellDuration >= 1, fires
\* exactly one click at the center, sets lastClickTime to now (the time
\* updateGaze read) and leaves the detector Idle with progress 0 and
\* isDwelling false.
C1_AsClaimed ==
    [][(GazeStep /\ C1_Pre) => (C1_Effect /\ lastClickTime' = clock)]_vars

\* C1 amended: the same, except that lastClickTime is set to the time
\* triggerClick reads after dispatching the click, which is at least now.
C1_Click ==
    [][(GazeStep /\ C1_Pre)
        => (C1_Effect /\ lastClickTime' = clock' /\ lastClickTime' >= clock)]_vars

\* A click has just fired and time passed while it was dispatched.
C1_Witness ==
    /\ last.op = "click"
    /\ lastClick # None
    /\ Val(lastClick).lat > 0
    /\ lastClickTime = clock
    /\ IsIdle
    /\ dwellProgress = 0

\* ---- C2 ----------------------------------------------------------------
\* C2: after a click stamped t0 = lastClickTime, an enabled updateGaze with
\* now - t0 < cooldownDuration changes no dwell state and fires no click; one
\* with now - t0 >= cooldownDuration is accepted and, the detector being Idle,
\* starts a new dwell at the sample with startTime now.
C2_Cooldown ==
    [][(GazeStep /\ enabled /\ clickCount > 0)
        => IF clock - lastClickTime < cooldownDuration
           THEN UNCHANGED dwellVars /\ clickCount' = clickCount
           ELSE (dwellCenter = None
                 => /\ dwellCenter' = Some(Sample)
                    /\ dwellStartTime' = Some(clock)
                    /\ dwellTarget' = Some(Sample)
                    /\ clickCount' = clickCount)]_vars

\* A sample has just been ignored inside the cooldown of the first click.
C2_Witness ==
    /\ last.op = "cooldown"
    /\ clickCount = 1
    /\ clock > lastClickTime
    /\ clock - lastClickTime < cooldownDuration
    /\ IsIdle

\* ---- C3 ----------------------------------------------------------------
\* C3: while Dwelling, a sample farther than dwellRadius from the center
\* re-centers the dwell at the sample, sets startTime to now and progress to
\* 0 and fires no click; a sample at distance dwellRadius or less does not
\* restart: the center and start time stay, or the dwell completes.
C3_Restart ==
    [][(GazeStep /\ dwellCenter # None)
        => IF WithinRadius(Sample)
           THEN \/ dwellCenter' = dwellCenter /\ dwellStartTime' = dwellStartTime
                \/ IsIdle' /\ clickCount' = clickCount + 1
           ELSE /\ dwellCenter' = Some(Sample)
                /\ dwellStartTime' = Some(clock)
                /\ dwellProgress' = 0
                /\ isDwelling' = FALSE
                /\ clickCount' = clickCount]_vars

\* A dwell that had shown progress has just been restarted at the sample.
C3_Witness ==
    /\ last.op = "restart"
    /\ last.hadProgress
    /\ dwellCenter = last.p
    /\ dwellStartTime = Some(clock)
    /\ dwellProgress = 0

\* ---- C4 ----------------------------------------------------------------
\* C4: in every step, progress does not decrease while the center is
\* unchanged, and it is 0 after a step that changes the center or fires a
\* click.
C4_Monotone ==
    [][/\ dwellCenter' = dwellCenter => dwellProgress' >= dwellProgress
       /\ (dwellCenter' # dwellCenter \/ clickCount' # clickCount)
            => dwellProgress' = 0]_vars

\* Progress has just grown to at least one half on an unchanged center.
C4_Witness ==
    /\ last.op = "progress"
    /\ last.hadProgress
    /\ 2 * dwellProgress >= dwellDuration
    /\ dwellCenter = last.p

\* ---- C5 ----------------------------------------------------------------
\* C5 as stated: in the dwell scenario the exposed dwellProgress reaches
\* exactly 1 by the time the one click has fired.
C5_AsClaimed == clickCount >= 1 => feed.peak = dwellDuration

\* C5 amended: in the dwell scenario the progress computed by updateGaze is
\* (k-1)/10 on tick k = 2..11, so it is non-decreasing and exactly 1 on the
\* 11th tick, where the one click fires; the exposed dwellProgress follows it
\* up to 0.9 on the 10th tick and is 0 again after the 11th.
C5_Scenario ==
    /\ feed.n \in 1..TicksToFull
        => /\ dwellProgress = (feed.n - 1) * TickSpacing
           /\ feed.peak = dwellProgress
           /\ clickCount = 0
    /\ feed.n \in 2..TicksToFull
        => last.computed = Some((feed.n - 1) * TickSpacing)
    /\ feed.n = TicksToFull + 1
        => /\ last.op = "click"
           /\ last.computed = Some(dwellDuration)
           /\ dwellProgress = 0
    /\ feed.n > TicksToFull
        => /\ clickCount = 1
           /\ feed.peak = (TicksToFull - 1) * TickSpacing

\* The 11th tick has just computed progress 1 and fired the click.
C5_Witness ==
    /\ feed.n = TicksToFull + 1
    /\ clickCount = 1
    /\ last.computed = Some(dwellDuration)

\* ---- C6 ----------------------------------------------------------------
\* C6: an updateGaze with enabled = false leaves the detector Idle (no
\* center, no start time) with progress 0 and isDwelling false, and fires no
\* click.
C6_Disabled ==
    [][(GazeStep /\ ~enabled)
        => /\ IsIdle'
           /\ dwellProgress' = 0
           /\ isDwelling' = FALSE
           /\ dwellTarget' = None
           /\ clickCount' = clickCount]_vars

\* A disabled update has just run on a detector that had clicked before.
C6_Witness ==
    /\ last.op = "disabled"
    /\ ~enabled
    /\ lastClickTime > 0
    /\ IsIdle
    /\ dwellProgress = 0

\* ---- C7 ----------------------------------------------------------------
\* The app is on the permission or calibration screen, or the calibration
\* session is not complete.
CalibrationPending ==
    appState \in {"permission", "calibrating"} \/ ~calState.isComplete

C8_Cancellation ==
    [][~isTracking
        => /\ last'.op \notin TickOps
           /\ clickCount' = clickCount
           /\ pointerPos' = pointerPos
           /\ screenPosRef' = screenPosRef
           /\ UNCHANGED dwellVars]_vars

\* The stop handler ran inside the animation-frame callback itself: a dwell
\* click landed on the Stop button, and the callback then requested the
\* next frame.
C8_Witness ==
    /\ ~isTracking
    /\ last.op = "click"
    /\ lastClick # None
    /\ Val(lastClick).hit = "stop"
    /\ appState = "permission"

\* ---- C9 ----------------------------------------------------------------
\* A result with a face has just been delivered, the first one since
\* tracking was started for the second time or later.
FirstSampleAfterRestart ==
    /\ last.op = "result"
    /\ session.n >= 2
    /\ session.samples = 1

\* C9 (as claimed): stopping tracking discards the sample smoother's state,
\* so the first sample delivered after tracking is started again is exposed
\* unmodified and becomes the smoother's state as it is, not blended with
\* the value of the earlier session.
C9_AsClaimed ==
    FirstSampleAfterRestart => eyeCoords = last.p /\ prevCoordsRef = last.p

\* ---- C10 ---------------------------------------------------------------
\* C10 (as claimed): a result without a face leaves the exposed sample
\* unchanged, and while the last result was without a face no run of the
\* animation-frame callback changes the dwell progress, the dwell state or
\* fires a click.
C10_AsClaimed ==
    [][/\ last'.op = "noFace" => eyeCoords' = eyeCoords
       /\ (session.faceLost /\ last'.op \in TickOps)
            => /\ eyeCoords' = eyeCoords
               /\ dwellProgress' = dwellProgress
               /\ clickCount' = clickCount]_vars

\* ---- C11 ---------------------------------------------------------------
\* The number of calibration targets.
NumTargets == Len(CALIBRATION_POSITIONS)

\* The screen position of target k (k = 0..8) for the viewport the page was
\* loaded with: the grid fraction times the width and the height.
TargetAt(k) ==
    Pt((CALIBRATION_POSITIONS[k + 1].x * 1000) \div GazeScale,
       (CALIBRATION_POSITIONS[k + 1].y * 800) \div GazeScale)

\* C11: calibration collects points in strict target order: after any
\* sequence of start / recordPoint / reset the k-th stored point (k = 0..8)
\* carries the screen position of target k and the eye coordinates passed
\* to the k-th accepted recordPoint, there is exactly one point per
\* completed target (completed targets are 0..index-1), and the session is
\* Complete exactly when nine points are stored.
C11_TargetOrder ==
    LET pts == calState.calibrationPoints
    IN  /\ Len(pts) = Len(accepted)
        /\ Len(pts) = calState.currentPointIndex
        /\ Len(pts) <= NumTargets
        /\ calState.completedPoints = [k \in 1..Len(pts) |-> k - 1]
        /\ \A k \in 1..Len(pts) :
              /\ pts[k].eyeX = accepted[k].x
              /\ pts[k].eyeY = accepted[k].y
              /\ pts[k].screenX = TargetAt(k - 1).x
              /\ pts[k].screenY = TargetAt(k - 1).y
        /\ calState.isComplete <=> Len(pts) = NumTargets
        /\ calState.isCalibrating => Len(pts) < NumTargets
        /\ ~(calState.isComplete /\ calState.isCalibrating)

\* The ninth point has just been recorded, the points were taken at three
\* different eye positions, and the window has been resized since the
\* session started.
C11_Witness ==
    /\ last.op = "recordPoint"
    /\ calState.isComplete
    /\ Len(calState.calibrationPoints) = NumTargets
    /\ Cardinality({accepted[k] : k \in 1..Len(accepted)}) = Cardinality(CalEyes)
    /\ viewport \notin Viewports

\* ---- C12 ---------------------------------------------------------------
\* C12: a recordPoint call made while the session is not Collecting (Idle
\* or Complete) changes nothing: phase, current index, completed indices,
\* stored points and regression coefficients stay as they were (and the
\* call returns normally: the step exists for every argument).
C12_IgnoredWhenNotCollecting ==
    [][(last'.op = "recordPoint" /\ ~calState.isCalibrating)
        => UNCHANGED <<calState, mappingCoeffs, accepted>>]_vars

\* recordPoint has just been called on a Complete session that holds
\* coefficients, with eye coordinates other than those of the ninth point.
C12_Witness ==
    /\ last.op = "recordPoint"
    /\ calState.isComplete
    /\ mappingCoeffs # None
    /\ Val(last.p) # accepted[NumTargets]

\* ---- C13 ---------------------------------------------------------------
\* The session is Collecting at index 0 with nothing stored.
CollectingAtZero ==
    /\ calState.isCalibrating
    /\ ~calState.isComplete
    /\ calState.currentPointIndex = 0
    /\ calState.calibrationPoints = <<>>
    /\ calState.completedPoints = <<>>

\* C13: after start() the session is Collecting at index 0 with an empty
\* point list, an empty completed set and null coefficients, whatever
\* points and coefficients existed before the call.
C13_Start == last.op = "startCalibration" => CollectingAtZero /\ mappingCoeffs = None

\* start() has just been called on a Complete session that held nine points
\* and coefficients.
C13_Witness ==
    /\ last.op = "startCalibration"
    /\ Val(last.p).isComplete
    /\ Val(last.p).points = NumTargets
    /\ Val(last.p).coeffs
    /\ CollectingAtZero

\* ---- C14 ---------------------------------------------------------------
\* The session is Idle with nothing stored.
IdleAtZero ==
    /\ ~calState.isCalibrating
    /\ ~calState.isComplete
    /\ calState.currentPointIndex = 0
    /\ calState.calibrationPoints = <<>>
    /\ calState.completedPoints = <<>>

\* C14: after reset(), called in any session state (Idle, Collecting at any
\* index, Complete), the session is Idle with index 0, no points, no
\* completed indices, and null coefficients.
C14_Reset == last.op = "resetCalibration" => IdleAtZero /\ mappingCoeffs = None

\* reset() has just been called on a Complete session that held
\* coefficients.
C14_Witness ==
    /\ last.op = "resetCalibration"
    /\ Val(last.p).isComplete
    /\ Val(last.p).coeffs
    /\ IdleAtZero
    /\ mappingCoeffs = None

\* ---- C15 ---------------------------------------------------------------
\* Some three of the points have eye positions that are not on one line
\* (the fit is not singular).
NotCollinear(pts) ==
    \E i, j, k \in 1..Len(pts) :
        (pts[j].eyeX - pts[i].eyeX) * (pts[k].eyeY - pts[i].eyeY)
        # (pts[k].eyeX - pts[i].eyeX) * (pts[j].eyeY - pts[i].eyeY)

\* C15: in every reachable state the coefficients are non-null only if the
\* session is Complete with nine recorded points whose fit is not singular
\* (so they are null in Idle and throughout Collecting), and the only step
\* that makes them non-null or changes their value to a non-null one is the
\* recordPoint that stores the ninth point.
C15_CoefficientsOnlyWhenComplete ==
    /\ [](mappingCoeffs # None
            => /\ calState.isComplete
               /\ ~calState.isCalibrating
               /\ Len(calState.calibrationPoints) = NumTargets
               /\ NotCollinear(calState.calibrationPoints)
               /\ Val(mappingCoeffs).det # 0)
    /\ [][(mappingCoeffs' # mappingCoeffs /\ mappingCoeffs' # None)
            => /\ last'.op = "recordPoint"
               /\ calState.currentPointIndex = NumTargets - 1
               /\ calState'.currentPointIndex = NumTargets]_vars

\* The ninth point has just been recorded and the fit succeeded.
C15_Witness ==
    /\ last.op = "recordPoint"
    /\ mappingCoeffs # None
    /\ calState.isComplete
    /\ Val(last.p) = accepted[NumTargets]
    /\ NotCollinear(calState.calibrationPoints)

\* ---- C16 ---------------------------------------------------------------
\* Nine points are stored and all of them have the same eyeX.
NineWithConstantEyeX ==
    /\ calState.isComplete
    /\ Len(calState.calibrationPoints) = NumTargets
    /\ \A k \in 1..NumTargets :
          calState.calibrationPoints[k].eyeX = calState.calibrationPoints[1].eyeX

\* out is exactly ((1 - eyeX) * viewportWidth, eyeY * viewportHeight), with
\* eye in steps of 1/GazeScale.
IsMirrorLinear(eye, out, vp) ==
    /\ out.x * GazeScale = (GazeScale - eye.x) * vp.w
    /\ out.y * GazeScale = eye.y * vp.h

\* C16: singular-input fallback: once nine points with one and the same
\* eyeX are recorded the coefficients are null, and every mapToScreen call
\* made while that session stands returns exactly
\* ((1 - eyeX) * viewportWidth, eyeY * viewportHeight).
C16_SingularFallback ==
    NineWithConstantEyeX
        => /\ mappingCoeffs = None
           /\ last.op = "mapToScreen"
                => IsMirrorLinear(Val(last.p).eye, Val(last.p).out, viewport)

\* mapToScreen has just been called after nine points with the same eyeX
\* and two different eyeY were recorded.
C16_Witness ==
    /\ NineWithConstantEyeX
    /\ last.op = "mapToScreen"
    /\ mappingCoeffs = None
    /\ \E k \in 1..NumTargets :
          calState.calibrationPoints[k].eyeY # calState.calibrationPoints[1].eyeY

\* ---- C17 ---------------------------------------------------------------
\* The true affine transform T of a layout, from eye coordinates to screen
\* coordinates: screenX = (x[1] + x[2]*eyeX + x[3]*eyeY) / den, and the same
\* for screenY with y.  Target columns are at 0.1, 0.5 and 0.9 of the width.
TrueMap(layout, vp) ==
    LET den == layout.sx * layout.sy
        u == vp.w \div 10
        v == vp.h \div 10
        shift == layout.sy * layout.ox - layout.kx * layout.oy
    IN  [x |-> IF layout.mirror
               THEN <<u * (9 * den + 4 * shift), 0 - 4 * u * layout.sy, 4 * u * layout.kx>>
               ELSE <<u * (den - 4 * shift), 4 * u * layout.sy, 0 - 4 * u * layout.kx>>,
         y |-> <<v * (den - 4 * layout.sx * layout.oy), 0, 4 * v * layout.sx>>,
         den |-> den]

\* T applied to an eye position, times T's denominator.
Applied(t, e) ==
    [x |-> t.x[1] + t.x[2] * e.x + t.x[3] * e.y,
     y |-> t.y[1] + t.y[2] * e.x + t.y[3] * e.y]

\* The nine stored pairs are generated by the layout's transform: it takes
\* each recorded eye position to the screen position stored with it.
GeneratedByT ==
    LET t == TrueMap(plan, viewport)
        pts == calState.calibrationPoints
    IN  /\ plan # NoPlan
        /\ calState.isComplete
        /\ Len(pts) = NumTargets
        /\ \A k \in 1..NumTargets :
              /\ Applied(t, Pt(pts[k].eyeX, pts[k].eyeY)).x = t.den * pts[k].screenX
              /\ Applied(t, Pt(pts[k].eyeX, pts[k].eyeY)).y = t.den * pts[k].screenY

\* The fitted coefficients are those of T (as fractions).
FitEqualsT ==
    LET t == TrueMap(plan, viewport)
        c == Val(mappingCoeffs)
    IN  /\ mappingCoeffs # None
        /\ \A j \in 1..3 :
              /\ c.xCoeffs[j] * t.den = t.x[j] * c.det
              /\ c.yCoeffs[j] * t.den = t.y[j] * c.det

\* v limited to 0..hi.
Limited(v, hi) == IF v < 0 THEN 0 ELSE IF v > hi THEN hi ELSE v

AffineValue(c, e) ==
    LET s == IF Val(mappingCoeffs).det > 0 THEN 1 ELSE 0 - 1
    IN  [n |-> s * (c[1] + c[2] * e.x + c[3] * e.y),
         d |-> s * Val(mappingCoeffs).det]

\* out is the fraction v limited to 0..hi, to the nearest pixel.
IsClamped(out, v, hi) ==
    IF v.n <= 0 THEN out = 0
    ELSE IF v.n >= hi * v.d THEN out = hi
    ELSE /\ 2 * (out * v.d - v.n) <= v.d
         /\ 2 * (v.n - out * v.d) <= v.d

\* C18: when coefficients are present, mapToScreen returns the affine model
\* value clamped per axis: for every eye input, inside [0,1] or not, the
\* result has 0 <= x <= viewportWidth and 0 <= y <= viewportHeight, with the
\* viewport size current at the time of the call.
C18_ClampedWhenCalibrated ==
    (last.op = "mapToScreen" /\ mappingCoeffs # None)
        => LET q == Val(last.p)
               c == Val(mappingCoeffs)
           IN  /\ 0 <= q.out.x /\ q.out.x <= viewport.w
               /\ 0 <= q.out.y /\ q.out.y <= viewport.h
               /\ IsClamped(q.out.x, AffineValue(c.xCoeffs, q.eye), viewport.w)
               /\ IsClamped(q.out.y, AffineValue(c.yCoeffs, q.eye), viewport.h)

\* mapToScreen has just been called with coefficients present, after the
\* window was resized, with an eye input outside [0,1] whose affine value is
\* beyond the right edge: the result is on the right edge.
C18_Witness ==
    /\ last.op = "mapToScreen"
    /\ mappingCoeffs # None
    /\ viewport \notin Viewports
    /\ Val(last.p).eye = Pt(0 - 3, 14)
    /\ LET v == AffineValue(Val(mappingCoeffs).xCoeffs, Val(last.p).eye)
       IN  v.n > viewport.w * v.d
    /\ Val(last.p).out.x = viewport.w

\* ---- C19 ---------------------------------------------------------------
\* e is inside [0,1] x [0,1].
InUnitSquare(e) ==
    /\ 0 <= e.x /\ e.x <= GazeScale
    /\ 0 <= e.y /\ e.y <= GazeScale

\* The calibration state is one of idle, collecting, complete.
CalibrationStateKnown ==
    \/ ~calState.isCalibrating /\ ~calState.isComplete
    \/ calState.isCalibrating /\ ~calState.isComplete
    \/ ~calState.isCalibrating /\ calState.isComplete

\* C19: when coefficients are absent (idle, collecting, or after a failed
\* fit), mapToScreen returns ((1 - eyeX) * viewportWidth,
\* eyeY * viewportHeight) without clamping, and for every input in
\* [0,1] x [0,1] that point is inside the viewport; mapToScreen returns a
\* point in every calibration state.
C19_UncalibratedLinear ==
    last.op = "mapToScreen"
        => LET q == Val(last.p)
           IN  /\ CalibrationStateKnown
               /\ q.out \in [x : Int, y : Int]
               /\ mappingCoeffs = None
                    => /\ IsMirrorLinear(q.eye, q.out, viewport)
                       /\ InUnitSquare(q.eye)
                            => /\ 0 <= q.out.x /\ q.out.x <= viewport.w
                               /\ 0 <= q.out.y /\ q.out.y <= viewport.h

\* mapToScreen has just been called after a fit that failed, with an eye
\* input outside [0,1]: the result is outside the viewport on both axes.
C19_Witness ==
    /\ last.op = "mapToScreen"
    /\ mappingCoeffs = None
    /\ calState.isComplete
    /\ Val(last.p).eye = Pt(0 - 3, 14)
    /\ Val(last.p).out.x > viewport.w
    /\ Val(last.p).out.y > viewport.h

\* ---- C20 ---------------------------------------------------------------
\* Half of a + b (the faces make it exact).
Half(a, b) == (a + b) \div 2

\* The raw sample of a result, by its path: the iris centres, or the
\* midpoints of the eye corners; the average is the midpoint of the two.
RawFor(landmarks) ==
    LET l == IF landmarks.length > 473
             THEN landmarks.at[468]
             ELSE Pt(Half(landmarks.at[33].x, landmarks.at[133].x),
                     Half(landmarks.at[33].y, landmarks.at[133].y))
        r == IF landmarks.length > 473
             THEN landmarks.at[473]
             ELSE Pt(Half(landmarks.at[362].x, landmarks.at[263].x),
                     Half(landmarks.at[362].y, landmarks.at[263].y))
    IN  [leftIris |-> l, rightIris |-> r,
         average |-> Pt(Half(l.x, r.x), Half(l.y, r.y))]

\* out = prev + 0.3 * (raw - prev), to the nearest unit.
IsEma(out, prev, raw) ==
    /\ 2 * (100 * out - (100 * prev + 30 * (raw - prev))) <= 100
    /\ 2 * ((100 * prev + 30 * (raw - prev)) - 100 * out) <= 100

IsEmaPt(out, prev, raw) ==
    /\ IsEma(out.x, prev.x, raw.x)
    /\ IsEma(out.y, prev.y, raw.y)

\* The sample a result with a face must yield from the previous one.
SmootherStep(prev, raw, out) ==
    IF prev = None
    THEN out = raw
    ELSE /\ IsEmaPt(out.leftIris, Val(prev).leftIris, raw.leftIris)
         /\ IsEmaPt(out.rightIris, Val(prev).rightIris, raw.rightIris)
         /\ IsEmaPt(out.average, Val(prev).average, raw.average)

\* C20: sample smoother: the first sample after the smoother has no
\* previous value is output unmodified; every later sample yields,
\* independently for leftIris, rightIris and average and for each axis,
\* out = prev + 0.3 * (raw - prev), in the same way on the iris-landmark
\* path and on the eye-corner fallback path; a result without a face yields
\* nothing.
C20_Smoother ==
    [][ last'.op = "onResults"
          => IF last'.p = None
             THEN UNCHANGED <<prevCoordsRef, eyeCoords>>
             ELSE /\ prevCoordsRef' # None
                  /\ eyeCoords' = prevCoordsRef'
                  /\ SmootherStep(prevCoordsRef, RawFor(Val(last'.p)),
                                  Val(prevCoordsRef')) ]_vars

\* A later sample has just been smoothed on the eye-corner fallback path:
\* the output is not the raw sample of any face.
C20_Witness ==
    /\ last.op = "onResults"
    /\ last.p # None
    /\ Val(last.p).length <= 473
    /\ session.samples >= 2
    /\ eyeCoords # None
    /\ \A f \in Faces : Val(eyeCoords).average # RawFor(Landmarks(f, FALSE)).average

\* ---- C21 ---------------------------------------------------------------
\* The six numbers of a sample.
Flat(c) ==
    <<c.leftIris.x, c.leftIris.y, c.rightIris.x, c.rightIris.y, c.average.x, c.average.y>>

\* The distance between two numbers.
Off(a, b) == IF a >= b THEN a - b ELSE b - a

\* The smoothed values of the stream's stage(s), once a sample has arrived.
StreamValues(prev, pos) ==
    IF plan.stage = "sample" THEN Flat(Val(prev))
    ELSE Flat(Val(prev)) \o <<pos.x, pos.y>>

\* The values a steady stream is smoothed towards: the raw sample and, for
\* the pointer, the uncalibrated image of its average.
StreamTargets ==
    IF plan.stage = "sample" THEN Flat(RawFor(plan.steady))
    ELSE Flat(plan.steady)
         \o << ((GazeScale - plan.steady.average.x) * viewport.w) \div GazeScale,
               (plan.steady.average.y * viewport.h) \div GazeScale >>

\* Every smoothed value is within one unit of resolution of its target.
StreamSettled ==
    /\ prevCoordsRef # None
    /\ \A k \in DOMAIN StreamTargets :
          Off(StreamValues(prevCoordsRef, screenPosRef)[k], StreamTargets[k]) <= 1

\* One more identical sample: no value moves away from its target, a value
\* two units or more away moves closer, and a value equal to its target
\* stays exactly equal.
StreamStep ==
    (prevCoordsRef # None /\ last'.op \in {"onResults", "result"})
        => \A k \in DOMAIN StreamTargets :
              LET before == StreamValues(prevCoordsRef, screenPosRef)[k]
                  after == StreamValues(prevCoordsRef', screenPosRef')[k]
                  target == StreamTargets[k]
              IN  /\ Off(after, target) <= Off(before, target)
                  /\ Off(before, target) >= 2 => Off(after, target) < Off(before, target)
                  /\ before = target => after = target

\* C21: EMA idempotence: smoothing a steady stream of identical samples
\* converges to that value (to the resolution of the arithmetic), on the
\* sample smoother and on the pointer smoother, and a smoothed value that
\* equals the sample remains exactly equal on every further step.
C21_Idempotence ==
    /\ <>[]StreamSettled
    /\ [][StreamStep]_vars

\* The pointer, started elsewhere, has settled on the image of the steady
\* sample while the smoothed sample has stayed exactly the steady sample
\* over ten results or more.
C21_Witness ==
    /\ plan.stage = "pointer"
    /\ session.samples >= 10
    /\ StreamSettled
    /\ eyeCoords = Some(plan.steady)
    /\ screenPosRef # plan.start
    /\ plan.start # Pt(0, 0)

\* ---- C22 ---------------------------------------------------------------
\* The step delivers the first result with a face since the page was
\* loaded: the mapping effect has never run before.
FirstMappedSample ==
    /\ last'.op = "result"
    /\ session'.n = 1
    /\ session'.samples = 1

\* out = prev + 0.35 * (mapped - prev), to the nearest pixel.
IsScreenEma(out, prev, mapped) ==
    /\ 2 * (100 * out - (100 * prev + 35 * (mapped - prev))) <= 100
    /\ 2 * ((100 * prev + 35 * (mapped - prev)) - 100 * out) <= 100

\* C22 (as claimed): the pointer position smoother passes the first mapped
\* sample through unmodified, no previous pointer position existing, and
\* every later mapped sample yields out = prev + 0.35 * (mapped - prev) per
\* axis.
C22_AsClaimed ==
    [][ last'.op = "result"
          => LET avg == Val(eyeCoords').average
                 mapped == mapToScreen(avg.x, avg.y, mappingCoeffs', viewport')
             IN  IF FirstMappedSample
                 THEN screenPosRef' = mapped
                 ELSE /\ IsScreenEma(screenPosRef'.x, screenPosRef.x, mapped.x)
                      /\ IsScreenEma(screenPosRef'.y, screenPosRef.y, mapped.y) ]_vars

\* The code's behaviour, for comparison: every mapped sample, the first
\* included, is blended with the position in screenPosRef, which starts as
\* (0, 0).
C22_AlwaysBlended ==
    [][ last'.op = "result"
          => LET avg == Val(eyeCoords').average
                 mapped == mapToScreen(avg.x, avg.y, mappingCoeffs', viewport')
             IN  /\ IsScreenEma(screenPosRef'.x, screenPosRef.x, mapped.x)
                 /\ IsScreenEma(screenPosRef'.y, screenPosRef.y, mapped.y)
                 /\ FirstMappedSample => screenPosRef = Pt(0, 0) ]_vars

\* ---- C23 ---------------------------------------------------------------
\* The step is a logical update of the tick loop.
LogicalUpdate == feed'.n = feed.n + 1

\* C23: tick throttling: any two consecutive logical updates of the tick
\* loop (publishing the pointer position, calling updateGaze) are at least
\* 16 ms apart, also across restarts of the loop; the pointer position is
\* published and updateGaze is called in logical updates only.
C23_Throttle ==
    [][ /\ (LogicalUpdate /\ feed.n >= 1) => clock - feed.t0 >= 16
        /\ LogicalUpdate => pointerPos' = screenPosRef
        /\ (pointerPos' # pointerPos \/ last'.op \in GazeOps) => LogicalUpdate ]_vars

\* The second logical update has just been made, 16 ms after the first,
\* whose render restarted the loop.
C23_Witness ==
    /\ feed.n = 2
    /\ feed.t0 = clock
    /\ clock = Epoch + 32
    /\ last.op \in TickOps \ {"throttled"}

\* ---- C24 ---------------------------------------------------------------
\* C24 (as claimed): a gaze sample is smoothed at most once per stage: the
\* pointer position takes a smoothing step only when a new tracker result
\* has arrived, and the same smoothed sample seen again is not smoothed
\* into it a second time.
C24_AsClaimed ==
    [][ screenPosRef' # screenPosRef => last'.op = "result" ]_vars

\* The code's behaviour, for comparison: the pointer position takes a
\* smoothing step on a new tracker result and on every change of the
\* mapping coefficients, the latter on the sample already smoothed in.
C24_StepOnResultOrCoefficients ==
    [][ screenPosRef' # screenPosRef
          => \/ last'.op = "result"
             \/ mappingCoeffs' # mappingCoeffs /\ eyeCoords' = eyeCoords ]_vars

\* ---- C25 ---------------------------------------------------------------
\* The targets are the grid scaled by the size vp.
TargetsScaledBy(vp) ==
    /\ Len(calibrationTargets) = NumTargets
    /\ \A k \in 1..NumTargets :
          /\ calibrationTargets[k].x * GazeScale = CALIBRATION_POSITIONS[k].x * vp.w
          /\ calibrationTargets[k].y * GazeScale = CALIBRATION_POSITIONS[k].y * vp.h

\* C25 (as claimed): the nine targets of a calibration session are the grid
\* {0.1, 0.5, 0.9} x {0.1, 0.5, 0.9} scaled by the viewport size current
\* when the session is created, also when the window was resized between
\* sessions, and they do not change during the session.
C25_AsClaimed ==
    /\ [](last.op = "startCalibration" => TargetsScaledBy(viewport))
    /\ [][calibrationTargets' = calibrationTargets]_vars

\* The code's behaviour, for comparison: the targets are the grid scaled by
\* the viewport size the page was loaded with, whatever the size is when a
\* session starts, and every stored point carries the target of its index.
C25_TargetsOfPageLoad ==
    /\ TargetsScaledBy([w |-> 1000, h |-> 800])
    /\ \A k \in 1..Len(calState.calibrationPoints) :
          /\ calState.calibrationPoints[k].screenX = calibrationTargets[k].x
          /\ calState.calibrationPoints[k].screenY = calibrationTargets[k].y

Min(a, b) == IF a <= b THEN a ELSE b

\* C27: calibration recording is driven by a discrete confirm event and
\* records one point at a time: a Space keydown during Collecting with a
\* current smoothed sample records exactly one point, from that sample's
\* average coordinates, so that a confirm at index i leaves min(9, i + 1)
\* points; a Space keydown while no gaze sample exists records nothing;
\* and no other event records a point.
C27_OneAtATime ==
    [][ LET pts == calState.calibrationPoints
            after == calState'.calibrationPoints
        IN  /\ last'.op = "space"
                 => IF calState.isCalibrating /\ eyeCoords # None
                    THEN /\ Len(after) = Min(9, Len(pts) + 1)
                         /\ Len(after) = Len(pts) + 1
                         /\ SubSeq(after, 1, Len(pts)) = pts
                         /\ after[Len(after)].eyeX = Val(eyeCoords).average.x
                         /\ after[Len(after)].eyeY = Val(eyeCoords).average.y
                         /\ calState'.currentPointIndex = calState.currentPointIndex + 1
                    ELSE /\ calState' = calState
                         /\ mappingCoeffs' = mappingCoeffs
            /\ Len(after) > Len(pts) => last'.op = "space" ]_vars

\* Space has just recorded the ninth point, from the current sample, the
\* first point having been recorded from a different sample.
C27_Witness ==
    LET pts == calState.calibrationPoints
    IN  /\ last.op = "space"
        /\ Len(pts) = 9
        /\ eyeCoords # None
        /\ pts[9].eyeX = Val(eyeCoords).average.x
        /\ pts[9].eyeY = Val(eyeCoords).average.y
        /\ pts[1].eyeX # pts[9].eyeX

\* ---- C28 ---------------------------------------------------------------
\* C28: the calibration flags always encode exactly one of Idle,
\* Collecting(i), Complete: isCalibrating and isComplete are never both
\* true, isComplete holds iff currentPointIndex = 9, isCalibrating implies
\* 0 <= currentPointIndex <= 8, with neither flag the index is 0, and
\* completedPoints = [0 .. currentPointIndex - 1] with calibrationPoints of
\* the same length.
C28_OnePhase ==
    LET i == calState.currentPointIndex
    IN  /\ ~(calState.isCalibrating /\ calState.isComplete)
        /\ calState.isComplete <=> i = 9
        /\ calState.isCalibrating => 0 <= i /\ i <= 8
        /\ (~calState.isCalibrating /\ ~calState.isComplete) => i = 0
        /\ Len(calState.completedPoints) = i
        /\ \A k \in 1..i : calState.completedPoints[k] = k - 1
        /\ Len(calState.calibrationPoints) = i

\* Collecting(8): the eighth point of a session has just been recorded.
C28_Witness ==
    /\ last.op = "recordPoint"
    /\ calState.isCalibrating
    /\ ~calState.isComplete
    /\ calState.currentPointIndex = 8
    /\ calState.completedPoints = <<0, 1, 2, 3, 4, 5, 6, 7>>

\* ---- C29 ---------------------------------------------------------------
\* The app is on the dashboard without a complete calibration: the
\* calibration was skipped.
Skipped == appState = "dashboard" /\ ~calState.isComplete

\* C29: if calibration is skipped (Escape during calibration), the app
\* enters the dashboard with the session Idle and coefficients null; while
\* it stays there the dwell detector is disabled, no dwell click fires and
\* the pointer follows the fallback mapping of the samples.
C29_SkippedStaysDisabled ==
    /\ [](/\ last.op = "escape" => Skipped
          /\ Skipped => /\ calState = IdleCalibration
                        /\ mappingCoeffs = None
                        /\ ~enabled
                        /\ ~isDwelling /\ dwellProgress = 0)
    /\ [][ (Skipped /\ Skipped')
             => /\ clickCount' = clickCount
                /\ last'.op \in TickOps => last'.op \in {"disabled", "throttled"}
                /\ last'.op = "result"
                     => LET avg == Val(eyeCoords').average
                            mx == ((GazeScale - avg.x) * viewport.w) \div GazeScale
                            my == (avg.y * viewport.h) \div GazeScale
                        IN  /\ IsScreenEma(screenPosRef'.x, screenPosRef.x, mx)
                            /\ IsScreenEma(screenPosRef'.y, screenPosRef.y, my) ]_vars

\* After a skip the frame callback has called the disabled detector on the
\* dashboard, more than a dwell duration after the page was loaded, with the
\* pointer moved by the samples.
C29_Witness ==
    /\ Skipped
    /\ last.op = "disabled"
    /\ clock >= Epoch + dwellDuration + dwellDuration \div 2
    /\ clickCount = 0
    /\ pointerPos # Pt(0, 0)
    /\ session.samples >= 2

\* ---- C30 ---------------------------------------------------------------
\* The calibration is complete and its nine eye positions lie on one line:
\* the matrix of the fit is singular.
SingularComplete(cs) ==
    /\ cs.isComplete
    /\ Len(cs.calibrationPoints) = NumTargets
    /\ ~NotCollinear(cs.calibrationPoints)

\* C30: a singular fit is not surfaced as an error: after the ninth point
\* with a singular matrix the session is Complete with null coefficients,
\* the app moves from 'calibrating' to 'dashboard' with no error set, the
\* dwell detector is enabled, and the pointer follows the fallback mapping
\* of the samples.
C30_SingularNotAnError ==
    /\ [](SingularComplete(calState)
            => /\ mappingCoeffs = None
               /\ appState = "dashboard"
               /\ enabled
               /\ ~error)
    /\ [][ /\ (last'.op = "space" /\ SingularComplete(calState'))
                => appState = "calibrating" /\ appState' = "dashboard"
           /\ (last'.op = "result" /\ SingularComplete(calState'))
                => LET avg == Val(eyeCoords').average
                       mx == ((GazeScale - avg.x) * viewport.w) \div GazeScale
                       my == (avg.y * viewport.h) \div GazeScale
                   IN  /\ IsScreenEma(screenPosRef'.x, screenPosRef.x, mx)
                       /\ IsScreenEma(screenPosRef'.y, screenPosRef.y, my) ]_vars

\* After nine points taken at two different eye positions (a singular fit)
\* the app is on the dashboard with the detector enabled, and a new sample
\* has just moved the pointer.
C30_Witness ==
    /\ SingularComplete(calState)
    /\ last.op = "result"
    /\ appState = "dashboard"
    /\ enabled
    /\ mappingCoeffs = None
    /\ \E k \in 1..NumTargets :
          calState.calibrationPoints[k].eyeX # calState.calibrationPoints[1].eyeX

\* ---- C31 ---------------------------------------------------------------
\* C31: with a monotonic clock, any two consecutive dwell clicks are at
\* least cooldownDuration + dwellDuration apart, whatever samples are fed
\* and however enabled changes in between: the updateGaze call that fires a
\* click reads a time at least that much later than the time stamped by the
\* previous click (which is not earlier than that click's dispatch), and so
\* do the two stamps.
C31_Separation ==
    [][(clickCount > 0 /\ clickCount' = clickCount + 1)
        => /\ lastClickTime >= Epoch
           /\ clock - lastClickTime >= cooldownDuration + dwellDuration
           /\ lastClickTime' - lastClickTime >= cooldownDuration + dwellDuration]_vars

\* A second click has just fired, exactly cooldownDuration + dwellDuration
\* after the stamp of the first.
C31_Witness ==
    /\ last.op = "click"
    /\ clickCount = 2
    /\ lastClickTime >= Epoch + dwellDuration + cooldownDuration + dwellDuration
    /\ lastClickTime - Val(lastClick).lat
         = Epoch + dwellDuration + cooldownDuration + dwellDuration

\* ---- C32 ---------------------------------------------------------------
\* C32: every click is dispatched at the coordinates of the sample that
\* started the dwell it completes (the center), whatever the sample of the
\* completing call is, and every sample accepted from that start up to and
\* including the completing call lay within dwellRadius of those
\* coordinates.
C32_ClickAtCenter ==
    [][clickCount' = clickCount + 1
        => /\ Val(lastClick').at = feed.p
           /\ feed'.p = feed.p
           /\ feed'.peak <= dwellRadius * dwellRadius
           /\ distanceSq(Sample, feed.p) <= dwellRadius * dwellRadius]_vars

\* A click has just fired at the starting sample although the completing
\* sample was another one, exactly dwellRadius away.
C32_Witness ==
    /\ last.op = "click"
    /\ clickCount >= 1
    /\ Val(lastClick).at = feed.p
    /\ last.p # Some(feed.p)
    /\ feed.peak = dwellRadius * dwellRadius

\* ---- C33 ---------------------------------------------------------------
\* C33: when the detector is enabled again after having been disabled,
\* dwelling starts from scratch.  The step that enables it leaves it Idle
\* with progress 0 and fires no click; the first sample accepted afterwards
\* (one not ignored by the cooldown) only sets the center to the sample and
\* the start time to now, with progress 0 and no click; and the progress
\* computed by any later call counts from a start time that is not earlier
\* than the moment of enabling, so it never includes time that passed before
\* or during the disabled period.
C33_FreshAfterEnable ==
    [][/\ (~enabled /\ enabled')
            => /\ IsIdle'
               /\ dwellProgress' = 0
               /\ isDwelling' = FALSE
               /\ clickCount' = clickCount
       /\ (GazeStep /\ enabled /\ feed.n = 0 /\ last'.op # "cooldown")
            => /\ last'.op = "start"
               /\ dwellCenter' = Some(Sample)
               /\ dwellStartTime' = Some(clock)
               /\ dwellProgress' = 0
               /\ isDwelling' = FALSE
               /\ clickCount' = clickCount
       /\ (GazeStep /\ last'.computed # None)
            => /\ dwellStartTime # None
               /\ Val(dwellStartTime) >= feed.since
               /\ Val(last'.computed) <= clock - feed.since]_vars

\* A dwell had been under way for at least dwellDuration when the detector
\* was disabled and enabled again; the first sample accepted afterwards has
\* just started a new dwell, with no click.
C33_Witness ==
    /\ last.op = "start"
    /\ enabled
    /\ feed.since >= Epoch + dwellDuration
    /\ clock > feed.since
    /\ clickCount = 0
    /\ dwellStartTime = Some(clock)
    /\ dwellProgress = 0

\* ---- C34 ---------------------------------------------------------------
\* The step enters the calibration phase.
EntersCalibrating == appState # "calibrating" /\ appState' = "calibrating"

\* C34: whenever the calibration session is Complete while the app phase is
\* 'calibrating', the phase eventually becomes 'dashboard'; and the phase
\* becomes 'calibrating' only from 'permission' with tracking active (the
\* start effect) or from 'dashboard' by a recalibrate, in both cases with
\* the session Collecting at index 0 and no points.
C34_PhaseSequencing ==
    /\ (calState.isComplete /\ appState = "calibrating") ~> (appState = "dashboard")
    /\ [][EntersCalibrating
            => /\ \/ /\ appState = "permission"
                     /\ isTracking
                     /\ isTracking'
                     /\ last'.op = "startEffect"
                  \/ /\ appState = "dashboard"
                     /\ \/ last'.op = "recalibrate"
                        \/ /\ last'.op = "click"
                           /\ Val(lastClick').hit = "recalibrate"
               /\ CollectingAtZero'
               /\ mappingCoeffs' = None]_vars

\* The ninth point has completed the session and the effect has moved the
\* app from the calibration phase to the dashboard.
C34_Witness ==
    /\ last.op = "dashboardEffect"
    /\ appState = "dashboard"
    /\ calState.isComplete
    /\ Len(calState.calibrationPoints) = Len(CALIBRATION_POSITIONS)
    /\ isTracking

\* ---- C35 ---------------------------------------------------------------
\* The step is handleStopTracking, by the mouse or by a dwell click.
StopStep ==
    \/ last'.op = "stopTracking"
    \/ last'.op = "click" /\ Val(lastClick').hit = "stop"

\* C35: stopping tracking from the dashboard leaves the app in 'permission'
\* with tracking off, no exposed gaze sample, the calibration session Idle
\* and the coefficients null; the session stays Idle with null coefficients
\* for as long as the app is in 'permission'; and a successful start from
\* there begins a calibration that is Collecting at index 0 with no points
\* and null coefficients, so nothing of an earlier session is reused.
C35_StopThenFreshStart ==
    [][/\ StopStep
            => /\ appState = "dashboard"
               /\ appState' = "permission"
               /\ ~isTracking'
               /\ ~cameraOn'
               /\ eyeCoords' = None
               /\ IdleAtZero'
               /\ mappingCoeffs' = None
       /\ appState' = "permission" => IdleAtZero' /\ mappingCoeffs' = None
       /\ last'.op = "startTracking"
            => /\ appState = "permission"
               /\ appState' = "calibrating"
               /\ isTracking'
               /\ CollectingAtZero'
               /\ mappingCoeffs' = None]_vars

\* Tracking has just been started for the second time, after a session that
\* produced samples: the calibration is Collecting at index 0.
C35_Witness ==
    /\ last.op = "startTracking"
    /\ session.n = 2
    /\ screenPosRef # Pt(0, 0)
    /\ appState = "calibrating"
    /\ CollectingAtZero
    /\ mappingCoeffs = None

\* ---- C36 ---------------------------------------------------------------
\* The step delivers a tracker result with a face while tracking is stopped
\* (the camera and the tracker have been torn down).
LateResult == ~cameraOn /\ ~isTracking /\ last'.op = "result"

\* C36 as stated: a tracker result delivered after stopTracking has no
\* effect: the exposed gaze sample stays null, and the pointer position and
\* the smoothing state are not updated.
C36_AsClaimed ==
    [][LateResult
        => /\ eyeCoords' = None
           /\ UNCHANGED <<prevCoordsRef, screenPosRef, pointerPos>>]_vars

\* What does hold: such a result moves neither the pointer position nor the
\* pointer smoother's state, and fires no click.
C36_PointerUntouched ==
    [][LateResult => UNCHANGED <<screenPosRef, pointerPos, clickCount, loop>>]_vars

\* A result has just been delivered after the stop and is exposed while
\* tracking is off.
C36_LateSampleExposed ==
    /\ last.op = "result"
    /\ ~isTracking
    /\ ~cameraOn
    /\ appState = "permission"
    /\ eyeCoords # None
    /\ prevCoordsRef = eyeCoords

\* ---- C37 ---------------------------------------------------------------
\* C37: at most one frame of the loop is requested at any time, and it is
\* the one whose id rafIdRef holds; none is requested while tracking is
\* off; and a run of the effect that requests a frame leaves no frame of an
\* earlier run requested, so one animation frame never runs two callbacks
\* (two updateGaze calls).
C37_OneLoop ==
    /\ Cardinality(loop.pending) <= 1
    /\ \A f \in loop.pending : f.id = loop.rafIdRef
    /\ ~isTracking => loop.pending = {}

\* The loop has been restarted by a render while a frame of the previous
\* run was requested: that frame is gone, the new one is requested, in the
\* dashboard phase.
C37_Witness ==
    /\ last.op = "render"
    /\ isTracking
    /\ appState = "dashboard"
    /\ loop.ids >= 3
    /\ ~loop.dirty
    /\ loop.pending = {[id |-> loop.ids, appState |-> "dashboard", lastTime |-> clock]}
    /\ clock > Epoch

\* ---- C38 ---------------------------------------------------------------
\* The point lies in [0, innerWidth] x [0, innerHeight].
OnScreen(p) == p.x >= 0 /\ p.x <= viewport.w /\ p.y >= 0 /\ p.y <= viewport.h

\* C38: with a fixed viewport and gaze samples in [0,1] x [0,1], the
\* smoothed pointer position, both as kept by the smoother and as published
\* to rendering and handed to dwell detection, lies in
\* [0, innerWidth] x [0, innerHeight] in every reachable state, with or
\* without coefficients; so does the center of a dwell.
C38_PointerOnScreen ==
    /\ OnScreen(screenPosRef)
    /\ OnScreen(pointerPos)
    /\ dwellCenter # None => OnScreen(Val(dwellCenter))
    /\ eyeCoords # None => InUnitSquare(Val(eyeCoords).average)

\* With coefficients in place, a sample whose calibrated image lies off the
\* screen has just been smoothed into the pointer position, which stays on
\* the screen.
C38_Witness ==
    /\ last.op = "result"
    /\ mappingCoeffs # None
    /\ isTracking
    /\ eyeCoords # None
    /\ LET vx == AffineValue(Val(mappingCoeffs).xCoeffs, Val(eyeCoords).average)
           vy == AffineValue(Val(mappingCoeffs).yCoeffs, Val(eyeCoords).average)
       IN  \/ vx.n < 0 \/ vx.n > viewport.w * vx.d
           \/ vy.n < 0 \/ vy.n > viewport.h * vy.d
    /\ screenPosRef # Pt(0, 0)
    /\ OnScreen(screenPosRef)

====
